---- MODULE Spec2Model ----
(***************************************************************************)
(* Recurrence-instance generation of ops-calendar, and the parser of the   *)
(* import's free-text schedules (parseRecurrence).                         *)
(*                                                                         *)
(* Two copies of generateInstances exist: the creation-time copy in        *)
(* functions/api/tasks/index.ts and the import-time copy in                *)
(* functions/api/import/tasks.ts.  Both are modelled, case by case.        *)
(*                                                                         *)
(* A JavaScript Date is modelled by its day number (days since             *)
(* 1970-01-01); the functions run on Cloudflare Pages, whose local time    *)
(* zone is UTC, so local midnight and the ISO (UTC) date agree.            *)
(* A scheduled_date string "YYYY-MM-DD" is modelled by the triple          *)
(* <<year, month, day>>; with the zero padding the code applies, string    *)
(* equality and string order are equality and lexicographic order on the   *)
(* triples.                                                                *)
(***************************************************************************)
EXTENDS Integers, Sequences, FiniteSets, TLC

VARIABLES
    when,       \* import: the task's free-text schedule (a sequence of characters)
    copy,       \* which copy of generateInstances runs: "create" or "import"
    config,     \* the RecurrenceConfig argument
    startYear,  \* argument startYear
    endYear,    \* argument endYear
    pc,         \* position of the call
    instances,  \* the instances array (scheduled_date of each entry)
    current,    \* weekly case: the Date `current` (day number, or InvalidDate)
    year,       \* nthWeekday case: loop variable year
    month,      \* nthWeekday case: loop variable month (0-based)
    day,        \* nthWeekday case: local variable day
    selectedInstance,    \* task panel store: the instance being edited, or Null
    selectedDefinition,  \* task panel store: the definition being edited, or Null
    isOpen,              \* task panel store: whether the panel is shown
    currentDate,         \* calendar store: the Date shown (local day number)
    view,                \* calendar store: 'daily', 'weekly', 'monthly' or 'yearly'
    selectedCategories,  \* calendar store: the category filter, in click order
    now,                 \* the clock, in half days since the deployment
    task_definitions,    \* table task_definitions: a set of rows
    task_instances,      \* table task_instances: a set of rows
    definitionSeq,       \* AUTOINCREMENT sequence of task_definitions
    instanceSeq,         \* AUTOINCREMENT sequence of task_instances
    users,               \* table users: a set of rows
    sessions,            \* table sessions: a set of rows
    userSeq,             \* AUTOINCREMENT sequence of users
    sessionSeq,          \* number of session ids generated so far
    requests,            \* the request of each client: where it is and what it carries
    loggedOut,           \* the session ids whose logout was answered
    formData,            \* TaskForm: recurrence_type and recurrence_config of formData
    rangeStartDate,      \* TaskForm: the start date input ('' is <<>>)
    rangeEndType,        \* TaskForm: 'never', 'date' or 'occurrences'
    rangeEndDate,        \* TaskForm: the end date input ('' is <<>>)
    rangeOccurrences,    \* TaskForm: the occurrences input
    submitted            \* TaskForm: what onSubmit was last called with

\* the state of a call of generateInstances or parseRecurrence
generatorVars ==
    <<when, copy, config, startYear, endYear, pc, instances, current, year, month, day>>

\* the state of the front end's stores
storeVars ==
    <<selectedInstance, selectedDefinition, isOpen, currentDate, view, selectedCategories>>

\* the clock and the tables of the task API
taskVars == <<now, task_definitions, task_instances, definitionSeq, instanceSeq>>

\* the tables of the user API and the requests to it
authVars == <<users, sessions, userSeq, sessionSeq, requests, loggedOut>>

\* the state of the task form
formVars ==
    <<formData, rangeStartDate, rangeEndType, rangeEndDate, rangeOccurrences, submitted>>

\* the state of the application around the two functions
appVars == <<storeVars, taskVars, authVars, formVars>>

vars == <<generatorVars, appVars>>

\* what the stores' actions leave alone
outsideStores == <<generatorVars, taskVars, authVars, formVars>>

\* what the task API's handlers leave alone
outsideTasks == <<generatorVars, storeVars, authVars, formVars>>

\* what the middleware and the handlers of users and sessions leave alone
outsideAuth == <<generatorVars, storeVars, formVars, task_definitions, task_instances,
                 definitionSeq, instanceSeq>>

\* what the task form leaves alone
outsideForm == <<generatorVars, storeVars, taskVars, authVars>>

----------------------------------------------------------------------------
(* Bounds of the model *)

\* last year a window may name (windows start no earlier than 2024)
MaxYear == 2026

\* largest value of range.occurrences that is tried
MaxOccurrences == 5

\* Days past the end of the largest window after which the model's Date
\* leaves its valid range (the real limit is 8.64e15 ms from the epoch).
DateSlack == 15

\* Value at which the model's `day++` stops changing day (the real limit is
\* 2^53, where adding 1 to a double no longer changes it).
DaySaturation == 40

----------------------------------------------------------------------------
(* JavaScript values *)

\* an absent field of the config record (config[key] is undefined)
Undefined == -999

\* the time value of an Invalid Date (NaN)
InvalidDate == -998

\* null
Null == -996

\* x || dflt for x a number or undefined
OrDefault(x, dflt) == IF x = Undefined \/ x = 0 THEN dflt ELSE x

\* Math.min on two numbers
Min(a, b) == IF a <= b THEN a ELSE b

----------------------------------------------------------------------------
(* Date arithmetic (what the Date constructor and getters compute) *)

\* day number of the proleptic Gregorian date y-m-d, m in 1..12
DaysFromCivil(y, m, d) ==
    LET yy  == IF m <= 2 THEN y - 1 ELSE y
        era == yy \div 400
        yoe == yy - era * 400
        mp  == IF m > 2 THEN m - 3 ELSE m + 9
        doy == (153 * mp + 2) \div 5 + d - 1
        doe == yoe * 365 + yoe \div 4 - yoe \div 100 + doy
    IN  era * 146097 + doe - 719468

\* the date <<y, m, d>> of a day number
CivilFromDays(t) ==
    LET z   == t + 719468
        era == z \div 146097
        doe == z - era * 146097
        yoe == (doe - doe \div 1460 + doe \div 36524 - doe \div 146096) \div 365
        doy == doe - (365 * yoe + yoe \div 4 - yoe \div 100)
        mp  == (5 * doy + 2) \div 153
        d   == doy - (153 * mp + 2) \div 5 + 1
        m   == IF mp < 10 THEN mp + 3 ELSE mp - 9
        y   == yoe + era * 400 + (IF m <= 2 THEN 1 ELSE 0)
    IN  <<y, m, d>>

\* new Date(y, monthIndex, d): monthIndex is 0-based and, like d, may lie
\* outside its usual range; the constructor carries the overflow
NewDate(y, monthIndex, d) ==
    DaysFromCivil(y + (monthIndex \div 12), (monthIndex % 12) + 1, 1) + d - 1

\* Date.prototype.getDay: 0 = Sunday (1970-01-01 was a Thursday)
GetDay(t) == (t + 4) % 7

\* Date.prototype.getDate
GetDate(t) == CivilFromDays(t)[3]

\* date.toISOString().split('T')[0]
ToISODate(t) == CivilFromDays(t)

\* `${year}-${String(month).padStart(2, '0')}-${String(day).padStart(2, '0')}`
DateString(y, m, d) == <<y, m, d>>

\* a <= b on scheduled_date strings
DateLE(a, b) ==
    \/ a[1] < b[1]
    \/ a[1] = b[1] /\ a[2] < b[2]
    \/ a[1] = b[1] /\ a[2] = b[2] /\ a[3] <= b[3]

----------------------------------------------------------------------------
(* The loops *)

\* what a loop pushes, in order, pushes[i] being what its i-th iteration
\* pushes (the range is split in halves to keep the nesting flat)
Concat(pushes) ==
    LET n == Len(pushes)
        Part[r \in (1..n) \X (1..n)] ==
            IF r[1] = r[2] THEN pushes[r[1]]
            ELSE LET mid == (r[1] + r[2]) \div 2
                 IN  Part[<<r[1], mid>>] \o Part[<<mid + 1, r[2]>>]
    IN  IF n = 0 THEN <<>> ELSE Part[<<1, n>>]

\* new Date(y, monthIndex, 0).getDate(): the last day of the month before
\* the 0-based month monthIndex of year y
LastDayBefore(y, monthIndex) == GetDate(NewDate(y, monthIndex, 0))

\* const startDate = new Date(startYear, 0, 1)
StartDate(sy) == NewDate(sy, 0, 1)

\* const endDate = new Date(endYear, 11, 31)
EndDate(ey) == NewDate(ey, 11, 31)

----------------------------------------------------------------------------
(* generateInstances, import-time copy: the cases without a seek loop *)

\* case 'daily': current runs over every day from startDate to endDate
\* (iteration k, counted from 0, sees startDate + k); Saturdays and Sundays are not pushed
\* when config.weekdaysOnly
ImportDaily(cfg, sy, ey) ==
    LET Body(k) ==
            LET cur       == StartDate(sy) + k
                dayOfWeek == GetDay(cur)
                isWeekday == dayOfWeek # 0 /\ dayOfWeek # 6
            IN  IF ~cfg.weekdaysOnly \/ isWeekday THEN <<ToISODate(cur)>> ELSE <<>>
    IN  Concat([i \in 1..(EndDate(ey) - StartDate(sy) + 1) |-> Body(i - 1)])

\* case 'weekly', second loop: push current and add 7 days while
\* current <= endDate (iteration k sees cur + 7 * k)
ImportWeeklyEmit(cur, e) ==
    LET Body(k) == <<ToISODate(cur + 7 * k)>>
    IN  Concat([i \in 1..((e - cur) \div 7 + 1) |-> Body(i - 1)])

\* the monthly case with the clamp left out: config.dayOfMonth is used as it is
ImportMonthlyUnclamped(cfg, sy, ey) ==
    LET PerYear(y) ==
            LET PerMonth(m) == <<DateString(y, m + 1, cfg.dayOfMonth)>>
            IN  Concat([i \in 1..12 |-> PerMonth(i - 1)])
    IN  Concat([i \in 1..(ey - sy + 1) |-> PerYear(sy + i - 1)])

\* case 'monthly': one date per month, the day clamped to the month's length
ImportMonthly(cfg, sy, ey) ==
    LET PerYear(y) ==
            LET PerMonth(m) ==
                    LET dom == Min(cfg.dayOfMonth, LastDayBefore(y, m + 1))
                    IN  <<DateString(y, m + 1, dom)>>
            IN  Concat([i \in 1..12 |-> PerMonth(i - 1)])
    IN  Concat([i \in 1..(ey - sy + 1) |-> PerYear(sy + i - 1)])

\* case 'bimonthly': the months whose parity matches config.monthParity
ImportBimonthly(cfg, sy, ey) ==
    LET PerYear(y) ==
            LET PerMonth(m) ==
                    LET isEven        == (m + 1) % 2 = 0
                        matchesParity == IF cfg.monthParity = "even" THEN isEven ELSE ~isEven
                        dom           == Min(OrDefault(cfg.dayOfMonth, 1), LastDayBefore(y, m + 1))
                    IN  IF matchesParity THEN <<DateString(y, m + 1, dom)>> ELSE <<>>
            IN  Concat([i \in 1..12 |-> PerMonth(i - 1)])
    IN  Concat([i \in 1..(ey - sy + 1) |-> PerYear(sy + i - 1)])

\* case 'quarterly': quarter start month plus (monthOfQuarter - 1)
ImportQuarterly(cfg, sy, ey) ==
    LET quarterMonths == <<0, 3, 6, 9>>
        PerYear(y) ==
            LET PerQuarter(qi) ==
                    LET targetMonth == quarterMonths[qi] + (OrDefault(cfg.monthOfQuarter, 1) - 1)
                        dom == Min(OrDefault(cfg.dayOfMonth, 1), LastDayBefore(y, targetMonth + 1))
                    IN  <<DateString(y, targetMonth + 1, dom)>>
            IN  Concat([i \in 1..Len(quarterMonths) |-> PerQuarter(i)])
    IN  Concat([i \in 1..(ey - sy + 1) |-> PerYear(sy + i - 1)])

\* case 'yearly': config.month, clamped day, once per year
ImportYearly(cfg, sy, ey) ==
    LET PerYear(y) ==
            LET m   == cfg.month - 1
                dom == Min(OrDefault(cfg.dayOfMonth, 1), LastDayBefore(y, m + 1))
            IN  <<DateString(y, m + 1, dom)>>
    IN  Concat([i \in 1..(ey - sy + 1) |-> PerYear(sy + i - 1)])

\* case 'multiMonth': for each year, each entry of config.months in list order
ImportMultiMonth(cfg, sy, ey) ==
    LET months == cfg.months
        PerYear(y) ==
            LET PerEntry(k) ==
                    LET dom == Min(OrDefault(cfg.dayOfMonth, 1), LastDayBefore(y, months[k]))
                    IN  <<DateString(y, months[k], dom)>>
            IN  Concat([i \in 1..Len(months) |-> PerEntry(i)])
    IN  Concat([i \in 1..(ey - sy + 1) |-> PerYear(sy + i - 1)])

\* the multiDate case with the clamp left out: the day is used as it is
ImportMultiDateUnclamped(cfg, sy, ey) ==
    LET dates == cfg.dates
        PerYear(y) ==
            LET PerEntry(k) == <<DateString(y, dates[k].month, dates[k].day)>>
            IN  Concat([i \in 1..Len(dates) |-> PerEntry(i)])
    IN  Concat([i \in 1..(ey - sy + 1) |-> PerYear(sy + i - 1)])

\* case 'multiDate': for each year, each {month, day} pair in list order
ImportMultiDate(cfg, sy, ey) ==
    LET dates == cfg.dates
        PerYear(y) ==
            LET PerEntry(k) ==
                    LET actualDay == Min(dates[k].day, LastDayBefore(y, dates[k].month))
                    IN  <<DateString(y, dates[k].month, actualDay)>>
            IN  Concat([i \in 1..Len(dates) |-> PerEntry(i)])
    IN  Concat([i \in 1..(ey - sy + 1) |-> PerYear(sy + i - 1)])

\* a % b === 0 on integers: the remainder is NaN when b is 0, and a zero
\* remainder has no sign that matters
RemainderIsZero(a, b) == b # 0 /\ a % (IF b < 0 THEN -b ELSE b) = 0

\* the multiYear case run from baseYear on only: years before baseYear are skipped
ImportMultiYearFromBase(cfg, sy, ey) ==
    LET baseYear == cfg.baseYear
        interval == cfg.interval
        PerYear(y) ==
            IF y >= baseYear /\ RemainderIsZero(y - baseYear, interval)
            THEN LET m   == cfg.month - 1
                     dom == Min(OrDefault(cfg.dayOfMonth, 1), LastDayBefore(y, m + 1))
                 IN  <<DateString(y, m + 1, dom)>>
            ELSE <<>>
    IN  Concat([i \in 1..(ey - sy + 1) |-> PerYear(sy + i - 1)])

\* case 'multiYear': the years whose distance to baseYear is a multiple of
\* interval
ImportMultiYear(cfg, sy, ey) ==
    LET baseYear == cfg.baseYear
        interval == cfg.interval
        PerYear(y) ==
            IF RemainderIsZero(y - baseYear, interval)
            THEN LET m   == cfg.month - 1
                     dom == Min(OrDefault(cfg.dayOfMonth, 1), LastDayBefore(y, m + 1))
                 IN  <<DateString(y, m + 1, dom)>>
            ELSE <<>>
    IN  Concat([i \in 1..(ey - sy + 1) |-> PerYear(sy + i - 1)])

\* the oneTime case with the end of the window taken in the start year
ImportOneTimeInStartYear(cfg, sy, ey) ==
    LET date == cfg.date
    IN  IF DateLE(DateString(sy, 1, 1), date) /\ DateLE(date, DateString(sy, 12, 31))
        THEN <<date>>
        ELSE <<>>

\* case 'oneTime': the date itself when it lies in the window (string compare)
ImportOneTime(cfg, sy, ey) ==
    LET date == cfg.date
    IN  IF DateLE(DateString(sy, 1, 1), date) /\ DateLE(date, DateString(ey, 12, 31))
        THEN <<date>>
        ELSE <<>>

----------------------------------------------------------------------------
(* generateInstances, creation-time copy *)

\* case 'daily'
CreateDaily(cfg, sy, ey) ==
    LET Body(k) ==
            LET cur       == StartDate(sy) + k
                dayOfWeek == GetDay(cur)
                isWeekday == dayOfWeek # 0 /\ dayOfWeek # 6
            IN  IF ~cfg.weekdaysOnly \/ isWeekday THEN <<ToISODate(cur)>> ELSE <<>>
    IN  Concat([i \in 1..(EndDate(ey) - StartDate(sy) + 1) |-> Body(i - 1)])

\* case 'weekly', second loop
CreateWeeklyEmit(cur, e) ==
    LET Body(k) == <<ToISODate(cur + 7 * k)>>
    IN  Concat([i \in 1..((e - cur) \div 7 + 1) |-> Body(i - 1)])

\* case 'monthly': config.dayOfMonth || 1, clamped
CreateMonthly(cfg, sy, ey) ==
    LET PerYear(y) ==
            LET PerMonth(m) ==
                    LET dom == Min(OrDefault(cfg.dayOfMonth, 1), LastDayBefore(y, m + 1))
                    IN  <<DateString(y, m + 1, dom)>>
            IN  Concat([i \in 1..12 |-> PerMonth(i - 1)])
    IN  Concat([i \in 1..(ey - sy + 1) |-> PerYear(sy + i - 1)])

\* case 'quarterly': the quarter start months only (monthOfQuarter is not read)
CreateQuarterly(cfg, sy, ey) ==
    LET quarterMonths == <<0, 3, 6, 9>>
        PerYear(y) ==
            LET PerQuarter(qi) ==
                    LET m   == quarterMonths[qi]
                        dom == Min(OrDefault(cfg.dayOfMonth, 1), LastDayBefore(y, m + 1))
                    IN  <<DateString(y, m + 1, dom)>>
            IN  Concat([i \in 1..Len(quarterMonths) |-> PerQuarter(i)])
    IN  Concat([i \in 1..(ey - sy + 1) |-> PerYear(sy + i - 1)])

\* case 'yearly'
CreateYearly(cfg, sy, ey) ==
    LET PerYear(y) ==
            LET m   == cfg.month - 1
                dom == Min(OrDefault(cfg.dayOfMonth, 1), LastDayBefore(y, m + 1))
            IN  <<DateString(y, m + 1, dom)>>
    IN  Concat([i \in 1..(ey - sy + 1) |-> PerYear(sy + i - 1)])

\* case 'bimonthly'
CreateBimonthly(cfg, sy, ey) ==
    LET PerYear(y) ==
            LET PerMonth(m) ==
                    LET isEven == (m + 1) % 2 = 0
                        dom    == Min(OrDefault(cfg.dayOfMonth, 1), LastDayBefore(y, m + 1))
                    IN  IF (cfg.monthParity = "even") = isEven
                        THEN <<DateString(y, m + 1, dom)>>
                        ELSE <<>>
            IN  Concat([i \in 1..12 |-> PerMonth(i - 1)])
    IN  Concat([i \in 1..(ey - sy + 1) |-> PerYear(sy + i - 1)])

\* the case labels of each copy's switch
ImportCases == {"daily", "weekly", "monthly", "bimonthly", "quarterly", "yearly",
                "nthWeekday", "multiMonth", "multiDate", "multiYear", "oneTime"}

CreateCases == {"daily", "weekly", "monthly", "quarterly", "yearly", "bimonthly"}

\* whether the switch of the running copy has a case for config.type
HasCase(cp, type) == IF cp = "create" THEN type \in CreateCases ELSE type \in ImportCases

----------------------------------------------------------------------------
(* The arguments a call may receive *)

\* the years a window may name
Years == 2024..MaxYear

\* <<startYear, endYear>>: every pair of Years (endYear < startYear is an
\* empty window) and two century years, one leap and one not
Windows == (Years \X Years) \cup {<<1900, 1900>>, <<2000, 2000>>}

\* an eleven-year window, tried with the rules that skip years (multiYear)
WideWindow == <<2020, 2030>>

\* the windows tried with a config
WindowsOf(cfg) == Windows \cup (IF cfg.type = "multiYear" THEN {WideWindow} ELSE {})

\* config.range is absent
NoRange == [startDate |-> <<>>, endType |-> "absent", endDate |-> <<>>, occurrences |-> Undefined]

\* values of config.range (RecurrenceRange); <<>> is an absent date
Ranges ==
    {NoRange,
     [startDate |-> <<2025, 6, 15>>, endType |-> "never", endDate |-> <<>>, occurrences |-> Undefined],
     [startDate |-> <<>>, endType |-> "date", endDate |-> <<2025, 3, 10>>, occurrences |-> Undefined],
     [startDate |-> <<2024, 1, 1>>, endType |-> "date", endDate |-> <<2024, 12, 31>>, occurrences |-> Undefined]}
    \cup {[startDate |-> <<2024, 1, 1>>, endType |-> "occurrences", endDate |-> <<>>, occurrences |-> k] :
            k \in {1, MaxOccurrences}}

\* a config with every field absent
Blank ==
    [type |-> "asNeeded", weekdaysOnly |-> FALSE, interval |-> Undefined,
     dayOfWeek |-> Undefined, daysOfWeek |-> <<>>, dayOfMonth |-> Undefined,
     monthParity |-> "", monthOfQuarter |-> Undefined, month |-> Undefined,
     n |-> Undefined, months |-> <<>>, dates |-> <<>>, baseYear |-> Undefined,
     date |-> <<>>, range |-> NoRange,
     useNthWeekday |-> FALSE, nthWeek |-> Undefined, nthDayOfWeek |-> Undefined]

DailyConfigs ==
    {[Blank EXCEPT !.type = "daily", !.weekdaysOnly = w, !.interval = iv, !.range = r] :
        w \in BOOLEAN, iv \in {Undefined, 1, 2, 3}, r \in Ranges}

\* <<daysOfWeek, interval>> of a weekly config; <<>> is the single-day mode
WeeklyModes == {<< <<>>, Undefined >>, << <<1, 3, 5>>, 1 >>, << <<1, 3, 5>>, 2 >>, << <<0, 2>>, 2 >>}

\* dayOfWeek is absent, a weekday 0..6, or 7 (no weekday)
WeeklyConfigs ==
    {[Blank EXCEPT !.type = "weekly", !.dayOfWeek = d, !.daysOfWeek = md[1],
                   !.interval = md[2], !.range = r] :
        d \in {Undefined} \cup 0..7, md \in WeeklyModes, r \in Ranges}

\* <<useNthWeekday, nthWeek, nthDayOfWeek>> of a monthly or yearly config that
\* asks for the nth weekday of the month (nthWeek 5 = last)
NthWeekdayModes == {<<TRUE, 1, 1>>, <<TRUE, 2, 2>>, <<TRUE, 5, 5>>}

\* dayOfMonth is 1..31, or 0 or 32 (no day of a month)
MonthlyConfigs ==
    {[Blank EXCEPT !.type = "monthly", !.dayOfMonth = d, !.range = r] :
        d \in 1..31, r \in Ranges}
    \cup
    {[Blank EXCEPT !.type = "monthly", !.dayOfMonth = d, !.useNthWeekday = nm[1],
                   !.nthWeek = nm[2], !.nthDayOfWeek = nm[3]] :
        d \in {1, 15}, nm \in NthWeekdayModes}
    \cup
    {[Blank EXCEPT !.type = "monthly", !.dayOfMonth = d] : d \in {0, 32}}

BimonthlyConfigs ==
    {[Blank EXCEPT !.type = "bimonthly", !.monthParity = p, !.dayOfMonth = d] :
        p \in {"even", "odd"}, d \in {Undefined, 1, 29, 30, 31}}

QuarterlyConfigs ==
    {[Blank EXCEPT !.type = "quarterly", !.monthOfQuarter = q, !.dayOfMonth = d] :
        q \in {Undefined, 1, 2, 3}, d \in {Undefined, 1, 30, 31}}

YearlyConfigs ==
    {[Blank EXCEPT !.type = "yearly", !.month = m, !.dayOfMonth = d, !.range = r] :
        m \in 1..12, d \in {Undefined, 1, 29, 31}, r \in Ranges}
    \cup
    {[Blank EXCEPT !.type = "yearly", !.month = m, !.dayOfMonth = 1, !.useNthWeekday = nm[1],
                   !.nthWeek = nm[2], !.nthDayOfWeek = nm[3]] :
        m \in {1, 11}, nm \in NthWeekdayModes}

\* n is 1..5 (5 = "last"); dayOfWeek is absent, a weekday 0..6, or 7
NthWeekdayConfigs ==
    {[Blank EXCEPT !.type = "nthWeekday", !.n = k, !.dayOfWeek = d] :
        k \in 1..5, d \in {Undefined} \cup 0..7}

\* the months list without the wrap-around branch
MonthRangeNoWrap(a, b) == [i \in 1..(b - a + 1) |-> a + i - 1]

\* the months list parseRecurrence builds for "<a>-<b>"
MonthRange(a, b) ==
    IF a <= b
    THEN [i \in 1..(b - a + 1) |-> a + i - 1]
    ELSE [i \in 1..(12 - a + 1) |-> a + i - 1] \o [i \in 1..b |-> i]

\* months lists: a range "<a>-<b>" or a pair "<a>/<b>", as parseRecurrence
\* builds them, with dayOfMonth 1
MultiMonthConfigs ==
    {[Blank EXCEPT !.type = "multiMonth", !.months = MonthRange(a, b), !.dayOfMonth = 1] :
        a \in 1..12, b \in 1..12}
    \cup
    {[Blank EXCEPT !.type = "multiMonth", !.months = <<a, b>>, !.dayOfMonth = 1] :
        a \in 1..12, b \in 1..12}

\* the {month, day} entries tried in a dates list
MultiDatePairs == {[month |-> m, day |-> d] : m \in {2, 4, 10}, d \in {28, 30, 31}}

\* the two-entry dates lists parseRecurrence builds for "<m> <d>/<m> <d>"
MultiDateConfigs ==
    {[Blank EXCEPT !.type = "multiDate", !.dates = <<p, q>>] :
        p \in MultiDatePairs, q \in MultiDatePairs}

MultiYearConfigs ==
    {[Blank EXCEPT !.type = "multiYear", !.interval = iv, !.baseYear = b, !.month = md[1],
                   !.dayOfMonth = md[2]] :
        iv \in 1..3, b \in 2022..2025, md \in {<<1, 1>>, <<2, 29>>}}

OneTimeConfigs ==
    {[Blank EXCEPT !.type = "oneTime", !.date = d] :
        d \in {<<2023, 12, 31>>, <<2024, 1, 1>>, <<2025, 5, 1>>, <<2026, 12, 3>>, <<2027, 1, 1>>}}

NoInstanceConfigs == {[Blank EXCEPT !.type = t] : t \in {"asNeeded", "asOccurs"}}

Configs ==
    DailyConfigs \cup WeeklyConfigs \cup MonthlyConfigs \cup BimonthlyConfigs
    \cup QuarterlyConfigs \cup YearlyConfigs \cup NthWeekdayConfigs
    \cup MultiMonthConfigs \cup MultiDateConfigs \cup MultiYearConfigs
    \cup OneTimeConfigs \cup NoInstanceConfigs

----------------------------------------------------------------------------
(* The application while one of the two functions is examined *)

\* the stores as the front end creates them, no date shown yet
StoresIdle ==
    /\ selectedInstance = Null
    /\ selectedDefinition = Null
    /\ isOpen = FALSE
    /\ currentDate = 0
    /\ view = "daily"
    /\ selectedCategories = <<>>

\* the task tables as schema.sql creates them
TasksIdle ==
    /\ now = 0
    /\ task_definitions = {}
    /\ task_instances = {}
    /\ definitionSeq = 0
    /\ instanceSeq = 0

\* the password_hash of the admin that schema.sql inserts
SeededHash ==
    <<"$", "a", "r", "g", "o", "n", "2", "i", "d", "$", "v", "=", "1", "9", "$",
      "m", "=", "1", "9", "4", "5", "6", ",", "t", "=", "2", ",", "p", "=", "1", "$",
      "Y", "W", "R", "t", "a", "W", "4", "x", "M", "j", "N", "z", "Y", "W", "x", "0", "$",
      "f", "H", "v", "Z", "q", "J", "Z", "8", "k", "Q", "2", "X", "v", "8", "W", "d",
      "5", "L", "8", "m", "J", "Q">>

\* the row of the admin that schema.sql inserts
SeededAdmin ==
    [id |-> 1, username |-> "admin", password_hash |-> SeededHash, role |-> "admin"]

\* the user tables as schema.sql creates them, no request under way
AuthIdle ==
    /\ users = {SeededAdmin}
    /\ sessions = {}
    /\ userSeq = 1
    /\ sessionSeq = 0
    /\ requests = <<>>
    /\ loggedOut = {}

\* formData.recurrence_config without a 'range' key
NoRangeKey == [startDate |-> <<>>, endType |-> "no key", endDate |-> <<>>, occurrences |-> Undefined]

\* a range that is undefined
UndefinedRange ==
    [startDate |-> <<>>, endType |-> "undefined", endDate |-> <<>>, occurrences |-> Undefined]

\* the form as it is first rendered without initialData
FormIdle ==
    /\ formData = [recurrence_type |-> "daily", interval |-> Undefined, range |-> NoRangeKey]
    /\ rangeStartDate = <<>>
    /\ rangeEndType = "never"
    /\ rangeEndDate = <<>>
    /\ rangeOccurrences = 10
    /\ submitted = [recurrence_type |-> "", interval |-> Undefined, range |-> NoRangeKey]

\* nothing else of the application runs during the call
AppIdle == StoresIdle /\ TasksIdle /\ AuthIdle /\ FormIdle

----------------------------------------------------------------------------
(* The call of generateInstances *)

\* entry of generateInstances: instances = [], nothing run yet
Init ==
    /\ AppIdle
    /\ when = <<>>
    /\ copy \in {"create", "import"}
    /\ config \in Configs
    /\ \E w \in WindowsOf(config) : startYear = w[1] /\ endYear = w[2]
    /\ pc = "call"
    /\ instances = <<>>
    /\ current = 0
    /\ year = 0
    /\ month = 0
    /\ day = 0

\* the call returns seq
Return(seq) ==
    /\ instances' = seq
    /\ pc' = "done"
    /\ UNCHANGED <<appVars, when, copy, config, startYear, endYear, current, year, month, day>>

\* the switch takes the case `type` of the running copy
Enter(type) == pc = "call" /\ config.type = type /\ HasCase(copy, type)

Daily ==
    /\ Enter("daily")
    /\ Return(IF copy = "create" THEN CreateDaily(config, startYear, endYear)
                                 ELSE ImportDaily(config, startYear, endYear))

Monthly ==
    /\ Enter("monthly")
    /\ Return(IF copy = "create" THEN CreateMonthly(config, startYear, endYear)
                                 ELSE ImportMonthly(config, startYear, endYear))

Bimonthly ==
    /\ Enter("bimonthly")
    /\ Return(IF copy = "create" THEN CreateBimonthly(config, startYear, endYear)
                                 ELSE ImportBimonthly(config, startYear, endYear))

Quarterly ==
    /\ Enter("quarterly")
    /\ Return(IF copy = "create" THEN CreateQuarterly(config, startYear, endYear)
                                 ELSE ImportQuarterly(config, startYear, endYear))

Yearly ==
    /\ Enter("yearly")
    /\ Return(IF copy = "create" THEN CreateYearly(config, startYear, endYear)
                                 ELSE ImportYearly(config, startYear, endYear))

MultiMonth ==
    /\ Enter("multiMonth")
    /\ Return(ImportMultiMonth(config, startYear, endYear))

MultiDate ==
    /\ Enter("multiDate")
    /\ Return(ImportMultiDate(config, startYear, endYear))

MultiYear ==
    /\ Enter("multiYear")
    /\ Return(ImportMultiYear(config, startYear, endYear))

OneTime ==
    /\ Enter("oneTime")
    /\ Return(ImportOneTime(config, startYear, endYear))

\* no case of the switch matches: the empty array is returned
NoCase ==
    /\ pc = "call"
    /\ ~HasCase(copy, config.type)
    /\ Return(<<>>)

----------------------------------------------------------------------------
(* case 'weekly' (the same text in both copies), its seek loop step by step *)

\* the last day number of the call's Date range in the model: past it a Date
\* is invalid; no date a returning call computes lies past it
DateLimit(sy, ey) ==
    (IF StartDate(sy) >= EndDate(ey) THEN StartDate(sy) ELSE EndDate(ey)) + DateSlack

\* const targetDay = (config.dayOfWeek as number) || 1
TargetDay(cfg) == OrDefault(cfg.dayOfWeek, 1)

\* current.getDay() !== targetDay; getDay() of an Invalid Date is NaN, which
\* is unequal to everything
WeeklySeekTest(cur, targetDay) == cur = InvalidDate \/ GetDay(cur) # targetDay

\* current.setDate(current.getDate() + 1)
SetDateNext(cur, limit) ==
    IF cur = InvalidDate \/ cur + 1 > limit THEN InvalidDate ELSE cur + 1

\* const current = new Date(startDate)
WeeklyBegin ==
    /\ Enter("weekly")
    /\ current' = StartDate(startYear)
    /\ pc' = "weeklySeek"
    /\ UNCHANGED <<appVars, when, copy, config, startYear, endYear, instances, year, month, day>>

\* one iteration of: while (current.getDay() !== targetDay) current.setDate(...)
WeeklySeek ==
    /\ pc = "weeklySeek"
    /\ WeeklySeekTest(current, TargetDay(config))
    /\ current' = SetDateNext(current, DateLimit(startYear, endYear))
    /\ UNCHANGED <<appVars, when, copy, config, startYear, endYear, pc, instances, year, month, day>>

\* the seek loop has ended: the second loop pushes every 7th day up to endDate
WeeklyEmit ==
    /\ pc = "weeklySeek"
    /\ ~WeeklySeekTest(current, TargetDay(config))
    /\ Return(IF copy = "create" THEN CreateWeeklyEmit(current, EndDate(endYear))
                                 ELSE ImportWeeklyEmit(current, EndDate(endYear)))

----------------------------------------------------------------------------
(* case 'nthWeekday' (import-time copy only), its seek loop step by step *)

\* day++ on a double
DayIncrement(d) == IF d >= DaySaturation THEN d ELSE d + 1

\* new Date(year, month, day).getDay() !== dayOfWeek
NthSeekTest(y, m, d, dayOfWeek) == GetDay(NewDate(y, m, d)) # dayOfWeek

\* the for loops start: year = startYear, month = 0, let day = 1
NthBegin ==
    /\ Enter("nthWeekday")
    /\ IF startYear <= endYear
       THEN /\ year' = startYear
            /\ month' = 0
            /\ day' = 1
            /\ pc' = "nthSeek"
            /\ UNCHANGED <<appVars, when, copy, config, startYear, endYear, instances, current>>
       ELSE /\ Return(<<>>)

\* one iteration of: while (new Date(year, month, day).getDay() !== dayOfWeek) day++
NthSeek ==
    /\ pc = "nthSeek"
    /\ NthSeekTest(year, month, day, config.dayOfWeek)
    /\ day' = DayIncrement(day)
    /\ UNCHANGED <<appVars, when, copy, config, startYear, endYear, pc, instances, current, year, month>>

\* day += (n - 1) * 7, and the date is pushed if it is still in the month
NthOccurrence(d, n) == d + (n - 1) * 7

\* the rest of the loop body once the first occurrence is found, and the
\* step of the for loops to the next month, the next year, or the return
NthPush ==
    /\ pc = "nthSeek"
    /\ ~NthSeekTest(year, month, day, config.dayOfWeek)
    /\ LET d == NthOccurrence(day, config.n)
       IN  instances' = IF d <= LastDayBefore(year, month + 1)
                        THEN Append(instances, DateString(year, month + 1, d))
                        ELSE instances
    /\ IF month + 1 < 12
       THEN month' = month + 1 /\ year' = year /\ day' = 1 /\ pc' = pc
       ELSE IF year + 1 <= endYear
            THEN month' = 0 /\ year' = year + 1 /\ day' = 1 /\ pc' = pc
            ELSE month' = month /\ year' = year /\ day' = day /\ pc' = "done"
    /\ UNCHANGED <<appVars, when, copy, config, startYear, endYear, current>>

----------------------------------------------------------------------------

Next ==
    \/ Daily
    \/ WeeklyBegin
    \/ WeeklySeek
    \/ WeeklyEmit
    \/ Monthly
    \/ Bimonthly
    \/ Quarterly
    \/ Yearly
    \/ NthBegin
    \/ NthSeek
    \/ NthPush
    \/ MultiMonth
    \/ MultiDate
    \/ MultiYear
    \/ OneTime
    \/ NoCase

Spec == Init /\ [][Next]_vars

\* the windows of the calls whose every step is followed to the return: one
\* year, two years, and an empty window
TerminationWindows == {<<2024, 2024>>, <<2024, 2025>>, <<2025, 2024>>}

\* the configs of those calls: every type, and for the types with a seek loop
\* (weekly, nthWeekday) every value of dayOfWeek
TerminationConfigs ==
    {c \in Configs :
        /\ c.range = NoRange
        /\ c.daysOfWeek = <<>>
        /\ c.interval \in {Undefined, 1}
        /\ c.type = "daily" => c.interval = Undefined
        /\ c.weekdaysOnly = FALSE
        /\ c.dayOfMonth \in {Undefined, 1, 31}
        /\ c.month \in {Undefined, 1, 2}
        /\ c.monthOfQuarter \in {Undefined, 3}
        /\ c.months \in {<<>>, <<1, 1>>, MonthRange(10, 3)}
        /\ c.dates \in {<<>>, <<[month |-> 2, day |-> 30], [month |-> 2, day |-> 31]>>}
        /\ c.baseYear \in {Undefined, 2022}}

TerminationInit ==
    /\ Init
    /\ config \in TerminationConfigs
    /\ <<startYear, endYear>> \in TerminationWindows

\* the call runs on: a step that can be taken is taken
FairSpec == TerminationInit /\ [][Next]_vars /\ WF_vars(Next)

----------------------------------------------------------------------------
(* generateInstances as a function of its arguments, for the calls that return *)

\* the seek loop of case 'weekly' run to its end: the first date from cur on
\* whose getDay() is targetDay (targetDay in 0..6)
RECURSIVE WeeklySeekFrom(_, _)
WeeklySeekFrom(cur, targetDay) ==
    IF GetDay(cur) # targetDay THEN WeeklySeekFrom(cur + 1, targetDay) ELSE cur

\* the seek loop of case 'nthWeekday' run to its end: the first day from d on
\* of month m (0-based) of year y whose getDay() is dayOfWeek (in 0..6)
RECURSIVE NthSeekFrom(_, _, _, _)
NthSeekFrom(y, m, d, dayOfWeek) ==
    IF NthSeekTest(y, m, d, dayOfWeek) THEN NthSeekFrom(y, m, d + 1, dayOfWeek) ELSE d

\* case 'weekly' of either copy
GenerateWeekly(cp, cfg, sy, ey) ==
    LET first == WeeklySeekFrom(StartDate(sy), TargetDay(cfg))
    IN  IF cp = "create" THEN CreateWeeklyEmit(first, EndDate(ey))
                         ELSE ImportWeeklyEmit(first, EndDate(ey))

\* case 'nthWeekday' (import-time copy)
ImportNthWeekday(cfg, sy, ey) ==
    LET PerYear(y) ==
            LET PerMonth(m) ==
                    LET d == NthOccurrence(NthSeekFrom(y, m, 1, cfg.dayOfWeek), cfg.n)
                    IN  IF d <= LastDayBefore(y, m + 1)
                        THEN <<DateString(y, m + 1, d)>>
                        ELSE <<>>
            IN  Concat([i \in 1..12 |-> PerMonth(i - 1)])
    IN  Concat([i \in 1..(ey - sy + 1) |-> PerYear(sy + i - 1)])

\* the calls whose seek loops end: the weekday sought is one of 0..6
SeekEnds(cp, cfg) ==
    /\ cfg.type = "weekly" => TargetDay(cfg) \in 0..6
    /\ (cfg.type = "nthWeekday" /\ cp = "import") => cfg.dayOfWeek \in 0..6

\* what generateInstances(config, startYear, endYear) of copy cp returns
GenerateInstances(cp, cfg, sy, ey) ==
    IF ~HasCase(cp, cfg.type) THEN <<>>
    ELSE CASE cfg.type = "daily" ->
                 IF cp = "create" THEN CreateDaily(cfg, sy, ey) ELSE ImportDaily(cfg, sy, ey)
           [] cfg.type = "weekly" -> GenerateWeekly(cp, cfg, sy, ey)
           [] cfg.type = "monthly" ->
                 IF cp = "create" THEN CreateMonthly(cfg, sy, ey) ELSE ImportMonthly(cfg, sy, ey)
           [] cfg.type = "bimonthly" ->
                 IF cp = "create" THEN CreateBimonthly(cfg, sy, ey) ELSE ImportBimonthly(cfg, sy, ey)
           [] cfg.type = "quarterly" ->
                 IF cp = "create" THEN CreateQuarterly(cfg, sy, ey) ELSE ImportQuarterly(cfg, sy, ey)
           [] cfg.type = "yearly" ->
                 IF cp = "create" THEN CreateYearly(cfg, sy, ey) ELSE ImportYearly(cfg, sy, ey)
           [] cfg.type = "nthWeekday" -> ImportNthWeekday(cfg, sy, ey)
           [] cfg.type = "multiMonth" -> ImportMultiMonth(cfg, sy, ey)
           [] cfg.type = "multiDate" -> ImportMultiDate(cfg, sy, ey)
           [] cfg.type = "multiYear" -> ImportMultiYear(cfg, sy, ey)
           [] cfg.type = "oneTime" -> ImportOneTime(cfg, sy, ey)

----------------------------------------------------------------------------
(* Text: a string is the sequence of its characters *)

LowerCaseLetters ==
    <<"a", "b", "c", "d", "e", "f", "g", "h", "i", "j", "k", "l", "m",
      "n", "o", "p", "q", "r", "s", "t", "u", "v", "w", "x", "y", "z">>

UpperCaseLetters ==
    <<"A", "B", "C", "D", "E", "F", "G", "H", "I", "J", "K", "L", "M",
      "N", "O", "P", "Q", "R", "S", "T", "U", "V", "W", "X", "Y", "Z">>

DigitCharacters == <<"0", "1", "2", "3", "4", "5", "6", "7", "8", "9">>

\* the character classes [a-z], \d and \s of the regular expressions
Letters == {LowerCaseLetters[i] : i \in DOMAIN LowerCaseLetters}

Digits == {DigitCharacters[i] : i \in DOMAIN DigitCharacters}

Whitespace == {" ", "\t"}

\* String.prototype.toLowerCase
ToLowerCase(s) ==
    [i \in DOMAIN s |->
        IF \E k \in DOMAIN UpperCaseLetters : UpperCaseLetters[k] = s[i]
        THEN LowerCaseLetters[CHOOSE k \in DOMAIN UpperCaseLetters : UpperCaseLetters[k] = s[i]]
        ELSE s[i]]

\* String.prototype.trim
Trim(s) ==
    LET inked == {i \in DOMAIN s : s[i] \notin Whitespace}
    IN  IF inked = {} THEN <<>>
        ELSE SubSeq(s, CHOOSE i \in inked : \A j \in inked : i <= j,
                       CHOOSE i \in inked : \A j \in inked : i >= j)

\* the character at position p, or "$" past the end of the input
CharAt(w, p) == IF p \in DOMAIN w THEN w[p] ELSE "$"

\* the literal lit stands at position p
HasAt(w, p, lit) == \A i \in DOMAIN lit : CharAt(w, p + i - 1) = lit[i]

\* String.prototype.includes
Includes(w, lit) == \E p \in 1..(Len(w) + 1) : HasAt(w, p, lit)

\* the position after the longest run of characters of class from position p
\* on (p itself when the character at p is not of the class): what a greedy
\* [a-z]+, \d+ or \s+ consumes
RunEnd(w, p, class) ==
    IF p > Len(w) THEN p
    ELSE CHOOSE q \in p..(Len(w) + 1) :
            /\ \A i \in p..(q - 1) : w[i] \in class
            /\ CharAt(w, q) \notin class

\* the substring from position p up to, not including, position q
Sub(w, p, q) == SubSeq(w, p, q - 1)

\* the least element of a non-empty set of positions: a regular expression
\* without ^ matches at the leftmost position where it can
Leftmost(positions) == CHOOSE p \in positions : \A q \in positions : p <= q

\* parseInt on a string of digits
RECURSIVE ParseInt(_)
ParseInt(digits) ==
    IF digits = <<>> THEN 0
    ELSE 10 * ParseInt(SubSeq(digits, 1, Len(digits) - 1))
         + ((CHOOSE k \in DOMAIN DigitCharacters : DigitCharacters[k] = digits[Len(digits)]) - 1)

\* String.prototype.match found nothing (null); a match is the tuple of its groups
NoMatch == <<>>

----------------------------------------------------------------------------
(* parseRecurrence *)

\* the literal texts parseRecurrence compares w with or looks for in w
TextDaily == <<"d", "a", "i", "l", "y">>

TextWeekly == <<"w", "e", "e", "k", "l", "y">>

TextMonthly == <<"m", "o", "n", "t", "h", "l", "y">>

TextBiMonthly == <<"b", "i", "-", "m", "o", "n", "t", "h", "l", "y">>

TextEvenMonths == <<"e", "v", "e", "n", " ", "m", "o", "n", "t", "h", "s">>

TextOddMonths == <<"o", "d", "d", " ", "m", "o", "n", "t", "h", "s">>

TextOdd == <<"o", "d", "d">>

TextQuarterly == <<"q", "u", "a", "r", "t", "e", "r", "l", "y">>

TextAsNeeded == <<"a", "s", " ", "n", "e", "e", "d", "e", "d">>

TextAsOccurs == <<"a", "s", " ", "o", "c", "c", "u", "r", "s">>

\* the one all-lowercase property name an object literal inherits
TextConstructor == <<"c", "o", "n", "s", "t", "r", "u", "c", "t", "o", "r">>

\* the full month names, by month number
FullMonthNames ==
    <<
      <<"j", "a", "n", "u", "a", "r", "y">>, <<"f", "e", "b", "r", "u", "a", "r", "y">>,
      <<"m", "a", "r", "c", "h">>, <<"a", "p", "r", "i", "l">>,
      <<"m", "a", "y">>, <<"j", "u", "n", "e">>,
      <<"j", "u", "l", "y">>, <<"a", "u", "g", "u", "s", "t">>,
      <<"s", "e", "p", "t", "e", "m", "b", "e", "r">>, <<"o", "c", "t", "o", "b", "e", "r">>,
      <<"n", "o", "v", "e", "m", "b", "e", "r">>, <<"d", "e", "c", "e", "m", "b", "e", "r">>
    >>

\* the 3-letter abbreviations, by month number
MonthAbbreviations ==
    <<
      <<"j", "a", "n">>, <<"f", "e", "b">>, <<"m", "a", "r">>, <<"a", "p", "r">>,
      <<"m", "a", "y">>, <<"j", "u", "n">>, <<"j", "u", "l">>, <<"a", "u", "g">>,
      <<"s", "e", "p">>, <<"o", "c", "t">>, <<"n", "o", "v">>, <<"d", "e", "c">>
    >>

\* MONTH_MAP.constructor: the object literal inherits it from Object.prototype;
\* it is a function, which is truthy and no number
ObjectConstructor == -997

\* MONTH_MAP[word]: the month of a key, an inherited property, or undefined
MONTH_MAP(word) ==
    IF \E m \in 1..12 : FullMonthNames[m] = word
    THEN CHOOSE m \in 1..12 : FullMonthNames[m] = word
    ELSE IF \E m \in 1..12 : MonthAbbreviations[m] = word
    THEN CHOOSE m \in 1..12 : MonthAbbreviations[m] = word
    ELSE IF word = TextConstructor
    THEN ObjectConstructor
    ELSE Undefined

\* a value counts as true in `if (month)`
Truthy(x) == x # Undefined /\ x # 0

\* first|second|third|fourth|last, by the value of nMap
OrdinalNames ==
    <<
      <<"f", "i", "r", "s", "t">>, <<"s", "e", "c", "o", "n", "d">>, <<"t", "h", "i", "r", "d">>,
      <<"f", "o", "u", "r", "t", "h">>, <<"l", "a", "s", "t">>
    >>

\* sunday|...|saturday, by the value of dayMap plus one
WeekdayNames ==
    <<
      <<"s", "u", "n", "d", "a", "y">>, <<"m", "o", "n", "d", "a", "y">>,
      <<"t", "u", "e", "s", "d", "a", "y">>, <<"w", "e", "d", "n", "e", "s", "d", "a", "y">>,
      <<"t", "h", "u", "r", "s", "d", "a", "y">>, <<"f", "r", "i", "d", "a", "y">>,
      <<"s", "a", "t", "u", "r", "d", "a", "y">>
    >>

\* /(\d+)(?:st|nd|rd|th)\s+of\s+month/i tried at position p
NthOfMonthAt(w, p) ==
    LET d == RunEnd(w, p, Digits)
        a == RunEnd(w, d + 2, Whitespace)
        b == RunEnd(w, a + 2, Whitespace)
    IN  /\ d > p
        /\ \E suffix \in {<<"s", "t">>, <<"n", "d">>, <<"r", "d">>, <<"t", "h">>} : HasAt(w, d, suffix)
        /\ a > d + 2
        /\ HasAt(w, a, <<"o", "f">>)
        /\ b > a + 2
        /\ HasAt(w, b, <<"m", "o", "n", "t", "h">>)

\* w.match(/(\d+)(?:st|nd|rd|th)\s+of\s+month/i)
NthOfMonthMatch(w) ==
    LET starts == {p \in DOMAIN w : NthOfMonthAt(w, p)}
    IN  IF starts = {} THEN NoMatch
        ELSE LET p == Leftmost(starts) IN <<Sub(w, p, RunEnd(w, p, Digits))>>

\* /every\s+(\d+)\s*(?:years?|yrs?)/i tried at position p
MultiYearAt(w, p) ==
    LET a == RunEnd(w, p + 5, Whitespace)
        d == RunEnd(w, a, Digits)
        b == RunEnd(w, d, Whitespace)
    IN  /\ HasAt(w, p, <<"e", "v", "e", "r", "y">>)
        /\ a > p + 5
        /\ d > a
        /\ HasAt(w, b, <<"y", "e", "a", "r">>) \/ HasAt(w, b, <<"y", "r">>)

\* w.match(/every\s+(\d+)\s*(?:years?|yrs?)/i)
MultiYearMatch(w) ==
    LET starts == {p \in DOMAIN w : MultiYearAt(w, p)}
    IN  IF starts = {} THEN NoMatch
        ELSE LET p == Leftmost(starts)
                 a == RunEnd(w, p + 5, Whitespace)
             IN  <<Sub(w, a, RunEnd(w, a, Digits))>>

\* /(first|second|third|fourth|last)\s+(sunday|...|saturday)/i tried at
\* position p with the n-th ordinal and the weekday k (0 = sunday)
NthWeekdayAt(w, p, n, k) ==
    LET a == RunEnd(w, p + Len(OrdinalNames[n]), Whitespace)
    IN  /\ HasAt(w, p, OrdinalNames[n])
        /\ a > p + Len(OrdinalNames[n])
        /\ HasAt(w, a, WeekdayNames[k + 1])

\* w.match(/(first|...|last)\s+(sunday|...|saturday)/i); the groups are given
\* by their values in nMap and dayMap
NthWeekdayMatch(w) ==
    LET found == {t \in (DOMAIN w) \X (1..5) \X (0..6) : NthWeekdayAt(w, t[1], t[2], t[3])}
    IN  IF found = {} THEN NoMatch
        ELSE LET t == CHOOSE t \in found : \A u \in found : t[1] <= u[1]
             IN  <<t[2], t[3]>>

\* /([a-z]+)\s+(\d{1,2})\s*\/\s*([a-z]+)\s+(\d{1,2})/i tried at position p:
\* the groups, or NoMatch
TwoDateAt(w, p) ==
    LET l1 == RunEnd(w, p, Letters)
        a  == RunEnd(w, l1, Whitespace)
        d1 == RunEnd(w, a, Digits)
        b  == RunEnd(w, d1, Whitespace)
        c  == RunEnd(w, b + 1, Whitespace)
        l2 == RunEnd(w, c, Letters)
        e  == RunEnd(w, l2, Whitespace)
        d2 == Min(RunEnd(w, e, Digits), e + 2)
    IN  IF /\ l1 > p /\ a > l1 /\ d1 - a \in 1..2
           /\ CharAt(w, b) = "/"
           /\ l2 > c /\ e > l2 /\ d2 > e
        THEN <<Sub(w, p, l1), Sub(w, a, d1), Sub(w, c, l2), Sub(w, e, d2)>>
        ELSE NoMatch

\* w.match(/([a-z]+)\s+(\d{1,2})\s*\/\s*([a-z]+)\s+(\d{1,2})/i)
TwoDateMatch(w) ==
    LET starts == {p \in DOMAIN w : TwoDateAt(w, p) # NoMatch}
    IN  IF starts = {} THEN NoMatch ELSE TwoDateAt(w, Leftmost(starts))

\* w.match(/^(january|...|december)\/(january|...|december)$/i); the groups are
\* given by their month numbers
FullMonthSlashMatch(w) ==
    LET found == {t \in (1..12) \X (1..12) :
                     w = FullMonthNames[t[1]] \o <<"/">> \o FullMonthNames[t[2]]}
    IN  IF found = {} THEN NoMatch ELSE CHOOSE t \in found : TRUE

\* w.match(/^(jan|...|dec)-(jan|...|dec)$/i)
MonthRangeMatch(w) ==
    LET found == {t \in (1..12) \X (1..12) :
                     w = MonthAbbreviations[t[1]] \o <<"-">> \o MonthAbbreviations[t[2]]}
    IN  IF found = {} THEN NoMatch ELSE CHOOSE t \in found : TRUE

\* w.match(/^(jan|...|dec)\/(jan|...|dec)$/i)
MultiMonthSlashMatch(w) ==
    LET found == {t \in (1..12) \X (1..12) :
                     w = MonthAbbreviations[t[1]] \o <<"/">> \o MonthAbbreviations[t[2]]}
    IN  IF found = {} THEN NoMatch ELSE CHOOSE t \in found : TRUE

\* /([a-z]+)\s+(\d{1,2}),\s+(\d{4})/i tried at position p: the comma is
\* required
FullDateCommaRequiredAt(w, p) ==
    LET l1 == RunEnd(w, p, Letters)
        a  == RunEnd(w, l1, Whitespace)
        d1 == RunEnd(w, a, Digits)
        c  == d1 + 1
        b  == RunEnd(w, c, Whitespace)
        y  == RunEnd(w, b, Digits)
    IN  IF l1 > p /\ a > l1 /\ d1 - a \in 1..2 /\ CharAt(w, d1) = "," /\ b > c /\ y >= b + 4
        THEN <<Sub(w, p, l1), Sub(w, a, d1), Sub(w, b, b + 4)>>
        ELSE NoMatch

\* /([a-z]+)\s+(\d{1,2}),?\s+(\d{4})/i tried at position p: the groups, or
\* NoMatch
FullDateWithCommaAt(w, p) ==
    LET l1 == RunEnd(w, p, Letters)
        a  == RunEnd(w, l1, Whitespace)
        d1 == RunEnd(w, a, Digits)
        c  == IF CharAt(w, d1) = "," THEN d1 + 1 ELSE d1
        b  == RunEnd(w, c, Whitespace)
        y  == RunEnd(w, b, Digits)
    IN  IF l1 > p /\ a > l1 /\ d1 - a \in 1..2 /\ b > c /\ y >= b + 4
        THEN <<Sub(w, p, l1), Sub(w, a, d1), Sub(w, b, b + 4)>>
        ELSE NoMatch

\* w.match(/([a-z]+)\s+(\d{1,2}),?\s+(\d{4})/i)
FullDateWithCommaMatch(w) ==
    LET starts == {p \in DOMAIN w : FullDateWithCommaAt(w, p) # NoMatch}
    IN  IF starts = {} THEN NoMatch ELSE FullDateWithCommaAt(w, Leftmost(starts))

\* w.match(/^([a-z]+)\s+(\d{4})$/i)
OneTimeYearMatch(w) ==
    LET l1 == RunEnd(w, 1, Letters)
        a  == RunEnd(w, l1, Whitespace)
        y  == RunEnd(w, a, Digits)
    IN  IF l1 > 1 /\ a > l1 /\ y = a + 4 /\ y = Len(w) + 1
        THEN <<Sub(w, 1, l1), Sub(w, a, y)>>
        ELSE NoMatch

\* w.match(/^([a-z]+)\s+(\d{1,2})$/i)
SpecificDateMatch(w) ==
    LET l1 == RunEnd(w, 1, Letters)
        a  == RunEnd(w, l1, Whitespace)
        d  == RunEnd(w, a, Digits)
    IN  IF l1 > 1 /\ a > l1 /\ d - a \in 1..2 /\ d = Len(w) + 1
        THEN <<Sub(w, 1, l1), Sub(w, a, d)>>
        ELSE NoMatch

\* w.match(/^(january|...|december)$/i): the full names only
MonthOnlyMatch(w) ==
    IF \E m \in 1..12 : w = FullMonthNames[m] THEN <<w>> ELSE NoMatch

\* w.match(/^(\d{4})$/)
YearOnlyMatch(w) ==
    IF Len(w) = 4 /\ \A i \in DOMAIN w : w[i] \in Digits THEN <<w>> ELSE NoMatch

\* the rule returned when nothing matches
FallbackRule == [Blank EXCEPT !.type = "yearly", !.month = 1, !.dayOfMonth = 1]

\* the patterns from the full date on, tried in order
ParseDateLike(w) ==
    LET fullDateWithCommaMatch == FullDateWithCommaMatch(w)
        oneTimeYearMatch       == OneTimeYearMatch(w)
        specificDateMatch      == SpecificDateMatch(w)
        monthOnlyMatch         == MonthOnlyMatch(w)
        yearOnlyMatch          == YearOnlyMatch(w)
    IN  IF fullDateWithCommaMatch # NoMatch /\ Truthy(MONTH_MAP(fullDateWithCommaMatch[1]))
        THEN [Blank EXCEPT !.type = "oneTime",
                           !.date = DateString(ParseInt(fullDateWithCommaMatch[3]),
                                               MONTH_MAP(fullDateWithCommaMatch[1]),
                                               ParseInt(fullDateWithCommaMatch[2]))]
        ELSE IF oneTimeYearMatch # NoMatch /\ Truthy(MONTH_MAP(oneTimeYearMatch[1]))
        THEN [Blank EXCEPT !.type = "oneTime",
                           !.date = DateString(ParseInt(oneTimeYearMatch[2]),
                                               MONTH_MAP(oneTimeYearMatch[1]), 1)]
        ELSE IF specificDateMatch # NoMatch /\ Truthy(MONTH_MAP(specificDateMatch[1]))
        THEN [Blank EXCEPT !.type = "yearly", !.month = MONTH_MAP(specificDateMatch[1]),
                           !.dayOfMonth = ParseInt(specificDateMatch[2])]
        ELSE IF monthOnlyMatch # NoMatch
        THEN [Blank EXCEPT !.type = "yearly", !.month = MONTH_MAP(monthOnlyMatch[1]),
                           !.dayOfMonth = 1]
        ELSE IF yearOnlyMatch # NoMatch
        THEN [Blank EXCEPT !.type = "oneTime", !.date = DateString(ParseInt(yearOnlyMatch[1]), 1, 1)]
        ELSE IF Includes(w, TextAsNeeded) \/ Includes(w, TextAsOccurs)
        THEN [Blank EXCEPT !.type = "asNeeded"]
        ELSE FallbackRule

\* the patterns made of month names, tried in order, then the date-like ones
ParseMonthLists(w) ==
    LET twoDateMatch         == TwoDateMatch(w)
        fullMonthSlashMatch  == FullMonthSlashMatch(w)
        monthRangeMatch      == MonthRangeMatch(w)
        multiMonthSlashMatch == MultiMonthSlashMatch(w)
    IN  IF /\ twoDateMatch # NoMatch
           /\ Truthy(MONTH_MAP(twoDateMatch[1])) /\ Truthy(MONTH_MAP(twoDateMatch[3]))
        THEN [Blank EXCEPT !.type = "multiDate",
                           !.dates = <<[month |-> MONTH_MAP(twoDateMatch[1]),
                                        day |-> ParseInt(twoDateMatch[2])],
                                       [month |-> MONTH_MAP(twoDateMatch[3]),
                                        day |-> ParseInt(twoDateMatch[4])]>>]
        ELSE IF fullMonthSlashMatch # NoMatch
        THEN [Blank EXCEPT !.type = "multiMonth", !.months = fullMonthSlashMatch, !.dayOfMonth = 1]
        ELSE IF monthRangeMatch # NoMatch
        THEN [Blank EXCEPT !.type = "multiMonth",
                           !.months = MonthRange(monthRangeMatch[1], monthRangeMatch[2]),
                           !.dayOfMonth = 1]
        ELSE IF multiMonthSlashMatch # NoMatch
        THEN [Blank EXCEPT !.type = "multiMonth", !.months = multiMonthSlashMatch, !.dayOfMonth = 1]
        ELSE ParseDateLike(w)

\* parseRecurrence(when), called in the year currentYear: the config returned
ParseRecurrence(text, currentYear) ==
    LET w               == Trim(ToLowerCase(text))
        nthOfMonthMatch == NthOfMonthMatch(w)
        multiYearMatch  == MultiYearMatch(w)
        nthWeekdayMatch == NthWeekdayMatch(w)
    IN  IF w = TextDaily
        THEN [Blank EXCEPT !.type = "daily", !.weekdaysOnly = FALSE]
        ELSE IF w = TextWeekly
        THEN [Blank EXCEPT !.type = "weekly", !.dayOfWeek = 1]
        ELSE IF w = TextMonthly
        THEN [Blank EXCEPT !.type = "monthly", !.dayOfMonth = 1]
        ELSE IF w = TextBiMonthly \/ Includes(w, TextEvenMonths) \/ Includes(w, TextOddMonths)
        THEN [Blank EXCEPT !.type = "bimonthly",
                           !.monthParity = IF Includes(w, TextOdd) THEN "odd" ELSE "even",
                           !.dayOfMonth = 1]
        ELSE IF w = TextQuarterly
        THEN [Blank EXCEPT !.type = "quarterly", !.monthOfQuarter = 1, !.dayOfMonth = 1]
        ELSE IF nthOfMonthMatch # NoMatch
        THEN [Blank EXCEPT !.type = "monthly", !.dayOfMonth = ParseInt(nthOfMonthMatch[1])]
        ELSE IF multiYearMatch # NoMatch
        THEN [Blank EXCEPT !.type = "multiYear", !.interval = ParseInt(multiYearMatch[1]),
                           !.baseYear = currentYear, !.month = 1, !.dayOfMonth = 1]
        ELSE IF nthWeekdayMatch # NoMatch
        THEN [Blank EXCEPT !.type = "nthWeekday", !.n = nthWeekdayMatch[1],
                           !.dayOfWeek = nthWeekdayMatch[2]]
        ELSE ParseMonthLists(w)

----------------------------------------------------------------------------
(* The texts an import may hold in the "when" column *)

\* String.prototype.toUpperCase
ToUpperCase(s) ==
    [i \in DOMAIN s |->
        IF \E k \in DOMAIN LowerCaseLetters : LowerCaseLetters[k] = s[i]
        THEN UpperCaseLetters[CHOOSE k \in DOMAIN LowerCaseLetters : LowerCaseLetters[k] = s[i]]
        ELSE s[i]]

\* the text with its first character in upper case
Capitalize(s) == IF s = <<>> THEN s ELSE ToUpperCase(SubSeq(s, 1, 1)) \o SubSeq(s, 2, Len(s))

\* a text as written in lower case, capitalized, in upper case, and padded
\* with blanks
Spellings(s) == {s, Capitalize(s), ToUpperCase(s), <<" ">> \o s \o <<" ", " ">>}

\* the decimal numeral of n in 0..99, and the same on two digits
Numeral(n) ==
    IF n < 10 THEN <<DigitCharacters[n + 1]>>
    ELSE <<DigitCharacters[(n \div 10) + 1], DigitCharacters[(n % 10) + 1]>>

TwoDigitNumeral(n) == <<DigitCharacters[(n \div 10) + 1], DigitCharacters[(n % 10) + 1]>>

\* the decimal numeral of y in 0..9999 on four digits
FourDigitNumeral(y) ==
    <<DigitCharacters[(y \div 1000) + 1], DigitCharacters[((y \div 100) % 10) + 1],
      DigitCharacters[((y \div 10) % 10) + 1], DigitCharacters[(y % 10) + 1]>>

\* the days written in texts: 1 or 2 digits, days of a month or not
DayValues == {0, 1, 5, 9, 10, 11, 28, 29, 30, 31, 32, 99}

DayTexts == {Numeral(n) : n \in DayValues} \cup {TwoDigitNumeral(n) : n \in {0, 1, 9}}

\* the years written in texts: 4 digits
YearValues == {1999, 2024, 2026}

YearTexts == {FourDigitNumeral(y) : y \in YearValues}

\* every key of MONTH_MAP
MonthNames ==
    {FullMonthNames[m] : m \in 1..12} \cup {MonthAbbreviations[m] : m \in 1..12}

\* words that are no month name
OtherWords == {TextConstructor, <<"f", "o", "o">>}

KeywordTexts ==
    UNION {Spellings(t) : t \in {TextDaily, TextWeekly, TextMonthly, TextBiMonthly,
                                 TextEvenMonths, TextOddMonths, TextQuarterly,
                                 TextAsNeeded, TextAsOccurs}}
    \cup {<<"i", "n", " ", "e", "v", "e", "n", " ", "m", "o", "n", "t", "h", "s">>, <<"O", "d", "d", " ", "m", "o", "n", "t", "h", "s", " ", "o", "n", "l", "y">>, <<"o", "n", "l", "y", " ", "a", "s", " ", "n", "e", "e", "d", "e", "d">>}

\* "<N>th of month"
NthOfMonthTexts ==
    {Numeral(n) \o suffix \o <<" ", "o", "f", " ", "m", "o", "n", "t", "h">> :
        n \in {0, 1, 2, 3, 10, 31, 32, 45}, suffix \in {<<"s", "t">>, <<"n", "d">>, <<"r", "d">>, <<"t", "h">>}}
    \cup {<<"1", "0", "t", "h", " ", "o", "f", " ", "M", "o", "n", "t", "h">>, <<"d", "u", "e", " ", "1", "0", "t", "h", " ", "o", "f", " ", "m", "o", "n", "t", "h">>}

\* "every <N> years|yrs"
EveryYearsTexts ==
    {<<"e", "v", "e", "r", "y", " ">> \o Numeral(n) \o unit :
        n \in {0, 1, 3, 9}, unit \in {<<" ", "y", "e", "a", "r", "s">>, <<" ", "y", "e", "a", "r">>, <<" ", "y", "r", "s">>, <<" ", "y", "r">>, <<"y", "r", "s">>}}
    \cup {<<"E", "v", "e", "r", "y", " ", "3", " ", "y", "e", "a", "r", "s">>, <<"E", "v", "e", "r", "y", " ", "9", " ", "Y", "r", "s">>}

\* "<first|...|last> <weekday>"
NthWeekdayTexts ==
    {OrdinalNames[n] \o <<" ">> \o WeekdayNames[k] : n \in 1..5, k \in 1..7}
    \cup {<<"S", "e", "c", "o", "n", "d", " ", "T", "u", "e", "s", "d", "a", "y">>}

\* "<month> <day>/<month> <day>"
TwoDateTexts ==
    {m1 \o <<" ">> \o d1 \o <<"/">> \o m2 \o <<" ">> \o d2 :
        m1 \in {<<"a", "p", "r">>, <<"o", "c", "t">>, <<"f", "e", "b">>, TextConstructor, <<"f", "o", "o">>}, d1 \in {Numeral(30), Numeral(0)},
        m2 \in {<<"a", "p", "r">>, <<"o", "c", "t">>, <<"f", "e", "b">>, TextConstructor, <<"f", "o", "o">>}, d2 \in {Numeral(31), Numeral(4)}}
    \cup {<<"A", "p", "r", " ", "3", "0", "/", "O", "c", "t", " ", "3", "1">>}

\* "<month>/<month>" and "<month>-<month>" with full names or abbreviations
MonthListTexts ==
    {a \o sep \o b : a \in MonthNames, b \in MonthNames, sep \in {<<"/">>, <<"-">>}}
    \cup {Capitalize(a) \o <<"-">> \o Capitalize(b) :
            a \in {MonthAbbreviations[m] : m \in 1..12},
            b \in {MonthAbbreviations[m] : m \in 1..12}}

\* "<month> <day>, <year>" and "<month> <day> <year>"
FullDateTexts ==
    {m \o <<" ">> \o d \o sep \o y :
        m \in MonthNames \cup OtherWords,
        d \in {Numeral(n) : n \in {0, 3, 29, 31, 99}} \cup {TwoDigitNumeral(3)},
        sep \in {<<",", " ">>, <<" ">>}, y \in YearTexts}
    \cup {<<"D", "e", "c", "e", "m", "b", "e", "r", " ", "3", ",", " ", "2", "0", "2", "6">>}

\* "<month> <year>", "<month> <day>", "<month>" and "<year>"
ShortDateTexts ==
    {m \o <<" ">> \o y : m \in MonthNames \cup OtherWords, y \in YearTexts}
    \cup {m \o <<" ">> \o d : m \in MonthNames \cup OtherWords, d \in DayTexts}
    \cup UNION {Spellings(m) : m \in MonthNames \cup OtherWords}
    \cup YearTexts
    \cup {<<"J", "a", "n", "u", "a", "r", "y", " ", "1", "1">>, <<"M", "a", "y", " ", "2", "0", "2", "5">>}

\* texts of no schedule
OtherTexts == {<<>>, <<"g", "a", "r", "b", "l", "e", "d", " ", "x", "y", "z">>, <<"s", "e", "m", "i", "-", "a", "n", "n", "u", "a", "l">>, Numeral(12), <<"2", "0", "2", "4", "5">>, <<"j", "a", "n", " ", "5", "t", "h">>}

Texts ==
    KeywordTexts \cup NthOfMonthTexts \cup EveryYearsTexts \cup NthWeekdayTexts
    \cup TwoDateTexts \cup MonthListTexts \cup FullDateTexts \cup ShortDateTexts
    \cup OtherTexts

----------------------------------------------------------------------------
(* The call of parseRecurrence *)

\* parseRecurrence is entered with a text of the import
ParseInit ==
    /\ AppIdle
    /\ when \in Texts
    /\ copy = "import"
    /\ config = Blank
    /\ startYear = 2024
    /\ endYear = 2025
    /\ pc = "parse"
    /\ instances = <<>>
    /\ current = 0
    /\ year = 0
    /\ month = 0
    /\ day = 0

\* parseRecurrence runs and returns its config; new Date().getFullYear() is
\* the year of the run
Parse ==
    /\ pc = "parse"
    /\ \E currentYear \in Years : config' = ParseRecurrence(when, currentYear)
    /\ pc' = "parsed"
    /\ UNCHANGED <<appVars, when, copy, startYear, endYear, instances, current, year, month, day>>

ParseNext == Parse

ParseSpec == ParseInit /\ [][ParseNext]_vars

----------------------------------------------------------------------------
(* The calendar the properties are stated against *)

\* leap years of the Gregorian calendar
IsLeapYear(y) == (y % 4 = 0 /\ y % 100 # 0) \/ y % 400 = 0

\* number of days of month m (1..12) of year y
DaysInMonth(y, m) ==
    IF m = 2 THEN (IF IsLeapYear(y) THEN 29 ELSE 28)
    ELSE IF m \in {4, 6, 9, 11} THEN 30 ELSE 31

\* weekday (0 = Sunday) of the date <<y, m, d>>
Weekday(date) == GetDay(DaysFromCivil(date[1], date[2], date[3]))

\* the set of entries of a sequence
Entries(seq) == {seq[i] : i \in DOMAIN seq}

\* the dates of the window, as day numbers
WindowDays == StartDate(startYear)..EndDate(endYear)

\* the positions of instances whose date lies in month m of year y
InMonth(y, m) == {i \in DOMAIN instances : instances[i][1] = y /\ instances[i][2] = m}

\* the call has returned
Returned == pc = "done"

----------------------------------------------------------------------------
(* Properties *)

\* C1: for an nthWeekday rule with n = 5 ("last") and dayOfWeek in 0..6, every
\* month of every year of the window gets exactly one instance, on the last
\* occurrence of that weekday in the month.
NthLastWeekdayEmitted ==
    (Returned /\ copy = "import" /\ config.type = "nthWeekday"
        /\ config.n = 5 /\ config.dayOfWeek \in 0..6)
    => \A y \in startYear..endYear, m \in 1..12 :
          LET last == CHOOSE d \in 1..DaysInMonth(y, m) :
                         /\ Weekday(<<y, m, d>>) = config.dayOfWeek
                         /\ d + 7 > DaysInMonth(y, m)
          IN  /\ Cardinality(InMonth(y, m)) = 1
              /\ \A i \in InMonth(y, m) : instances[i] = <<y, m, last>>

\* C2: for a weekly rule in single-day mode with dayOfWeek = d in 0..6, every
\* instance falls on weekday d and every date of the window that falls on
\* weekday d is an instance.
WeeklySingleDayExact ==
    (Returned /\ config.type = "weekly" /\ config.daysOfWeek = <<>>
        /\ config.dayOfWeek \in 0..6)
    => /\ \A i \in DOMAIN instances : Weekday(instances[i]) = config.dayOfWeek
       /\ \A t \in WindowDays :
             GetDay(t) = config.dayOfWeek => ToISODate(t) \in Entries(instances)

NoDuplicateDates ==
    Returned => Cardinality(Entries(instances)) = Len(instances)

\* C5: the returned sequence is in ascending date order.
AscendingDates ==
    Returned => \A i \in 1..(Len(instances) - 1) : DateLE(instances[i], instances[i + 1])

\* C6: every call of generateInstances returns.
AlwaysReturns == <>Returned

\* C7: a daily rule whose range ends after N occurrences yields exactly N
\* dates, whatever the window (of at least N days).
DailyOccurrencesCap ==
    (Returned /\ config.type = "daily" /\ config.range.endType = "occurrences"
        /\ config.range.occurrences >= 1
        /\ Cardinality(WindowDays) >= config.range.occurrences)
    => Len(instances) = config.range.occurrences

\* C8: for a daily, weekly, monthly or yearly rule with a range, no instance
\* is earlier than range.startDate when it is set, and none is later than
\* range.endDate when endType is 'date'.
RangeRespected ==
    (Returned /\ config.type \in {"daily", "weekly", "monthly", "yearly"})
    => /\ config.range.startDate # <<>> =>
             \A i \in DOMAIN instances : DateLE(config.range.startDate, instances[i])
       /\ config.range.endType = "date" =>
             \A i \in DOMAIN instances : DateLE(instances[i], config.range.endDate)

\* C9: for a weekly rule with daysOfWeek = D (non-empty) and interval = N the
\* instances are exactly the dates of the window whose weekday is in D and
\* whose week (Sunday to Saturday) is an N-th week counted from the week of
\* the first such date.
WeeklyMultiDayExact ==
    (Returned /\ config.type = "weekly" /\ config.daysOfWeek # <<>>
        /\ config.interval >= 1 /\ config.dayOfWeek \in Entries(config.daysOfWeek))
    => LET D       == Entries(config.daysOfWeek)
           onDays  == {t \in WindowDays : GetDay(t) \in D}
           first   == CHOOSE t \in onDays : \A u \in onDays : t <= u
           week(t) == (t - (first - GetDay(first))) \div 7
       IN  Entries(instances) =
               {ToISODate(t) : t \in {u \in onDays : week(u) % config.interval = 0}}

\* C10: for a daily rule a date of the window is an instance if and only if
\* (weekdaysOnly is false or the date is Monday..Friday) and its distance in
\* days from the window start is a multiple of interval (default 1).
DailyExact ==
    (Returned /\ config.type = "daily")
    => Entries(instances) =
          {ToISODate(t) : t \in
              {u \in WindowDays :
                  /\ ~config.weekdaysOnly \/ GetDay(u) \in 1..5
                  /\ (u - StartDate(startYear)) % OrDefault(config.interval, 1) = 0}}


\* date is the n-th occurrence of weekday dow in its month (n = 5: the last)
IsNthWeekdayOfMonth(date, n, dow) ==
    /\ Weekday(date) = dow
    /\ IF n = 5 THEN date[3] + 7 > DaysInMonth(date[1], date[2])
                ELSE (date[3] - 1) \div 7 + 1 = n

\* C11: for a monthly or yearly rule with useNthWeekday = true every emitted
\* date is the nthWeek-th occurrence of weekday nthDayOfWeek in its month
\* (nthWeek 5 = the last one); with useNthWeekday false or absent every emitted
\* date is on dayOfMonth clamped to the month's length.
NthWeekdayModeHonoured ==
    (Returned /\ config.type \in {"monthly", "yearly"} /\ config.dayOfMonth \in 1..31)
    => \A i \in DOMAIN instances :
          IF config.useNthWeekday
          THEN IsNthWeekdayOfMonth(instances[i], config.nthWeek, config.nthDayOfWeek)
          ELSE instances[i][3] =
                  Min(config.dayOfMonth, DaysInMonth(instances[i][1], instances[i][2]))


\* the years of the window whose distance to year b, forwards or backwards,
\* is a multiple of n
YearsOnCycle(b, n) ==
    {y \in startYear..endYear : \E k \in -(MaxYear + 10)..(MaxYear + 10) : y - b = k * n}

WiderWindows ==
    {w \in WindowsOf(config) \cup {<<startYear, endYear>>} :
        w[1] <= startYear /\ w[2] >= endYear}

\* C13: for every rule without an occurrences cap, the returned sequence is
\* the value of generateInstances for the call's window, and every date of it
\* is also returned for every window with startYear' <= startYear and
\* endYear' >= endYear.
WindowMonotone ==
    (Returned /\ config.range.endType # "occurrences" /\ SeekEnds(copy, config))
    => /\ instances = GenerateInstances(copy, config, startYear, endYear)
       /\ \A w \in WiderWindows :
             Entries(instances) \subseteq Entries(GenerateInstances(copy, config, w[1], w[2]))

\* C13, its case: a weekly rule over 2025 alone has returned dates, and the
\* window 2024..2026 returns them among more
WindowMonotoneWitness ==
    /\ Returned /\ config.type = "weekly" /\ SeekEnds(copy, config)
    /\ config.range.endType # "occurrences"
    /\ <<startYear, endYear>> = <<2025, 2025>>
    /\ instances # <<>>
    /\ <<2024, 2026>> \in WiderWindows
    /\ Len(GenerateInstances(copy, config, 2024, 2026)) > Len(instances)


\* a required field of the rule's type is missing or outside its declared
\* bounds
Malformed(cfg) ==
    \/ cfg.type = "weekly" /\ cfg.dayOfWeek \notin 0..6
    \/ cfg.type \in {"monthly", "bimonthly", "quarterly", "yearly", "multiMonth", "multiYear"}
          /\ cfg.dayOfMonth \notin 1..31
    \/ cfg.type \in {"yearly", "multiYear"} /\ cfg.month \notin 1..12
    \/ cfg.type = "quarterly" /\ cfg.monthOfQuarter \notin 1..3
    \/ cfg.type = "nthWeekday" /\ (cfg.n \notin 1..5 \/ cfg.dayOfWeek \notin 0..6)

\* C14: a call with a malformed rule fails with InvalidRule before any date is
\* computed: once it has left its entry it is in the failed state and holds
\* no instance.  (No statement of generateInstances throws, so no step of the
\* model leads to a failed state.)
InvalidRuleFails ==
    (Malformed(config) /\ pc # "call" /\ pc # "parse")
    => (pc = "failed" /\ instances = <<>>)


\* the window end precedes the window start
EmptyWindow == endYear < startYear

----------------------------------------------------------------------------
(* Properties of parseRecurrence *)

\* parseRecurrence has returned
Parsed == pc = "parsed"

\* the text as the patterns see it: case folded and trimmed
Normalized == Trim(ToLowerCase(when))

\* word is the name of a month, full or abbreviated
IsMonthName(word) == word \in MonthNames

\* the rule types of the data model
RuleTypes ==
    {"daily", "weekly", "monthly", "bimonthly", "quarterly", "yearly", "nthWeekday",
     "multiMonth", "multiDate", "multiYear", "oneTime", "asNeeded", "asOccurs"}

\* the text has the shape of one of the patterns 1 to 14, its month words
\* being month names
MatchesAPattern(w) ==
    \/ w \in {TextDaily, TextWeekly, TextMonthly, TextBiMonthly, TextQuarterly}
    \/ Includes(w, TextEvenMonths) \/ Includes(w, TextOddMonths)
    \/ NthOfMonthMatch(w) # NoMatch
    \/ MultiYearMatch(w) # NoMatch
    \/ NthWeekdayMatch(w) # NoMatch
    \/ TwoDateMatch(w) # NoMatch
          /\ IsMonthName(TwoDateMatch(w)[1]) /\ IsMonthName(TwoDateMatch(w)[3])
    \/ FullMonthSlashMatch(w) # NoMatch
    \/ MonthRangeMatch(w) # NoMatch
    \/ MultiMonthSlashMatch(w) # NoMatch
    \/ FullDateWithCommaMatch(w) # NoMatch /\ IsMonthName(FullDateWithCommaMatch(w)[1])
    \/ OneTimeYearMatch(w) # NoMatch /\ IsMonthName(OneTimeYearMatch(w)[1])
    \/ SpecificDateMatch(w) # NoMatch /\ IsMonthName(SpecificDateMatch(w)[1])
    \/ IsMonthName(w)
    \/ YearOnlyMatch(w) # NoMatch
    \/ Includes(w, TextAsNeeded) \/ Includes(w, TextAsOccurs)

\* C16: parseRecurrence returns a rule for every text, and for a text that
\* matches none of the patterns 1 to 14 the rule is exactly the fallback,
\* yearly on month 1, day 1.
FallbackWhenUnmatched ==
    Parsed => /\ config.type \in RuleTypes
              /\ ~MatchesAPattern(Normalized) => config = FallbackRule

\* a yearly rule on month m, day d, and a oneTime rule on the date y-m-d
YearlyOn(m, d) == [Blank EXCEPT !.type = "yearly", !.month = m, !.dayOfMonth = d]

OneTimeOn(y, m, d) == [Blank EXCEPT !.type = "oneTime", !.date = <<y, m, d>>]

\* C17: for every month name m, 1-2 digit day d and 4-digit year y, "m d"
\* parses to yearly on (m, d), "m y" to oneTime on day 1 of month m of y,
\* "m d, y" and "m d y" to oneTime on that date, and "y" to oneTime on
\* January 1 of y.
DateTextPriority ==
    Parsed =>
       /\ \A y \in YearValues : when = FourDigitNumeral(y) => config = OneTimeOn(y, 1, 1)
       /\ \A mo \in 1..12 : \A name \in {FullMonthNames[mo], MonthAbbreviations[mo]} :
             (HasAt(when, 1, name \o <<" ">>))
             => /\ \A y \in YearValues :
                      when = name \o <<" ">> \o FourDigitNumeral(y)
                      => config = OneTimeOn(y, mo, 1)
                /\ \A d \in 0..99 : \A dt \in {Numeral(d), TwoDigitNumeral(d)} :
                      (HasAt(when, Len(name) + 2, dt))
                      => /\ when = name \o <<" ">> \o dt => config = YearlyOn(mo, d)
                         /\ \A y \in YearValues :
                               /\ when = name \o <<" ">> \o dt \o <<",", " ">> \o FourDigitNumeral(y)
                                  => config = OneTimeOn(y, mo, d)
                               /\ when = name \o <<" ">> \o dt \o <<" ">> \o FourDigitNumeral(y)
                                  => config = OneTimeOn(y, mo, d)

\* C17, its case: "sep 03, 2026" has been parsed to the one-time date
\* 2026-09-03
DateTextPriorityWitness ==
    /\ Parsed
    /\ when = MonthAbbreviations[9] \o <<" ">> \o TwoDigitNumeral(3) \o <<",", " ">>
                 \o FourDigitNumeral(2026)
    /\ config = OneTimeOn(2026, 9, 3)

\* C18: the name of a month alone, full or abbreviated, in lower case,
\* capitalized or in upper case, parses to yearly on that month, day 1.
BareMonthNameYearly ==
    Parsed =>
       \A mo \in 1..12 : \A name \in {FullMonthNames[mo], MonthAbbreviations[mo]} :
          when \in {name, Capitalize(name), ToUpperCase(name)} => config = YearlyOn(mo, 1)

\* the months from a to b inclusive, going round the year
RunOfMonths(a, b) == [i \in 1..(((b - a) % 12) + 1) |-> ((a + i - 2) % 12) + 1]

\* C19: for month abbreviations a and b the text "a-b" parses to multiMonth
\* with dayOfMonth 1 whose months are the inclusive run from a to b, wrapping
\* past December when a > b, with no month repeated.
MonthRangeParsed ==
    Parsed =>
       \A a \in 1..12, b \in 1..12 :
          when \in {MonthAbbreviations[a] \o <<"-">> \o MonthAbbreviations[b],
                    Capitalize(MonthAbbreviations[a]) \o <<"-">> \o Capitalize(MonthAbbreviations[b])}
          => /\ config = [Blank EXCEPT !.type = "multiMonth", !.dayOfMonth = 1,
                                       !.months = RunOfMonths(a, b)]
             /\ Cardinality(Entries(config.months)) = Len(config.months)

\* C19, its case: "Oct-Mar" has been parsed to the months 10, 11, 12, 1, 2, 3
MonthRangeParsedWitness ==
    /\ Parsed
    /\ when = Capitalize(MonthAbbreviations[10]) \o <<"-">> \o Capitalize(MonthAbbreviations[3])
    /\ config.type = "multiMonth"
    /\ config.months = <<10, 11, 12, 1, 2, 3>>

\* the fields a rule has are within the bounds of the data model
ValidRule(cfg) ==
    /\ cfg.dayOfMonth # Undefined => cfg.dayOfMonth \in 1..31
    /\ cfg.month # Undefined => cfg.month \in 1..12
    /\ cfg.n # Undefined => cfg.n \in 1..5
    /\ cfg.dayOfWeek # Undefined => cfg.dayOfWeek \in 0..6
    /\ cfg.interval # Undefined => cfg.interval >= 1
    /\ \A i \in DOMAIN cfg.months : cfg.months[i] \in 1..12
    /\ \A i \in DOMAIN cfg.dates : cfg.dates[i].month \in 1..12 /\ cfg.dates[i].day \in 1..31
    /\ cfg.date # <<>> => /\ cfg.date[2] \in 1..12
                          /\ cfg.date[3] \in 1..DaysInMonth(cfg.date[1], cfg.date[2])

\* C20: every rule parseRecurrence returns is a valid rule of the data model.
ParsedRuleValid == Parsed => ValidRule(config)


----------------------------------------------------------------------------
(* Properties of the generator, continued *)

\* the other copy of generateInstances
OtherCopy(cp) == IF cp = "create" THEN "import" ELSE "create"

\* C24: for a rule whose fields are within the bounds of the data model,
\* every returned scheduled_date is a real calendar date (month 1..12, day
\* 1..days of that month) between January 1 of startYear and December 31 of
\* endYear.
DatesRealAndInWindow ==
    (Returned /\ ~Malformed(config) /\ ValidRule(config))
    => \A i \in DOMAIN instances :
          /\ instances[i][1] \in startYear..endYear
          /\ instances[i][2] \in 1..12
          /\ instances[i][3] \in 1..DaysInMonth(instances[i][1], instances[i][2])

\* C24, its case: a multiDate rule naming February 30 has returned February
\* 29 for 2024 and February 28 for 2025
DatesRealAndInWindowWitness ==
    /\ Returned /\ config.type = "multiDate"
    /\ config.dates[1] = [month |-> 2, day |-> 30]
    /\ <<2024, 2, 29>> \in Entries(instances)
    /\ <<2025, 2, 28>> \in Entries(instances)

\* C25: for a config of type daily, weekly, monthly, bimonthly, quarterly or
\* yearly the creation-time copy and the import-time copy return the same
\* sequence of dates.
CopiesAgree ==
    (Returned /\ config.type \in CreateCases)
    => instances = GenerateInstances(OtherCopy(copy), config, startYear, endYear)

----------------------------------------------------------------------------
(* The application while no call of the two functions is examined *)

\* no call of generateInstances or parseRecurrence is in progress
GeneratorIdle ==
    /\ when = <<>>
    /\ copy = "create"
    /\ config = Blank
    /\ startYear = 2024
    /\ endYear = 2024
    /\ pc = "idle"
    /\ instances = <<>>
    /\ current = 0
    /\ year = 0
    /\ month = 0
    /\ day = 0

----------------------------------------------------------------------------
(* Date setters and getters of the calendar store (local time) *)

\* Date.prototype.getFullYear
GetFullYear(t) == CivilFromDays(t)[1]

\* Date.prototype.getMonth (0-based)
GetMonth(t) == CivilFromDays(t)[2] - 1

\* date.setDate(d): the day of the month is replaced, overflow is carried
SetDate(t, d) == NewDate(GetFullYear(t), GetMonth(t), d)

\* date.setMonth(monthIndex): year and day of the month are kept, overflow
\* of the month and then of the day is carried
SetMonth(t, monthIndex) == NewDate(GetFullYear(t), monthIndex, GetDate(t))

\* date.setFullYear(y): month and day of the month are kept
SetFullYear(t, y) == NewDate(y, GetMonth(t), GetDate(t))

\* startOfDay of date-fns: the Date at 00:00 of the same local day, which is
\* the day number itself
StartOfDay(t) == t

----------------------------------------------------------------------------
(* The task panel store and the calendar store (zustand) *)

\* the TaskInstance objects a view can hand to the panel, named by id
PanelInstances == {101, 102}

\* the TaskDefinition objects the tasks page can hand to the panel
PanelDefinitions == {201, 202}

\* the days the calendar may show: December 2023 to March 2025
ShownDays == DaysFromCivil(2023, 12, 1)..DaysFromCivil(2025, 3, 31)

\* the days setCurrentDate is called with and the days the clock shows:
\* first, middle and last days of some months of 2024
PickedDays ==
    {DaysFromCivil(2024, m, d) : m \in {1, 3, 5, 8, 12}, d \in {1, 15, 29, 30, 31}}

\* the views
CalendarViews == {"daily", "weekly", "monthly", "yearly"}

\* category ids and the filters that can be set at once
CategoryIds == {1, 2}
CategoryLists == {<<>>, <<1>>, <<2>>, <<1, 2>>, <<2, 1>>}

\* selectedCategories.filter((id) => id !== categoryId)
RECURSIVE Without(_, _)
Without(list, categoryId) ==
    IF list = <<>> THEN <<>>
    ELSE IF Head(list) = categoryId THEN Without(Tail(list), categoryId)
    ELSE <<Head(list)>> \o Without(Tail(list), categoryId)

\* selectedCategories.includes(categoryId)
IncludesCategory(list, categoryId) == \E i \in DOMAIN list : list[i] = categoryId

\* both stores as created; new Date() is any of the days
StoresInit ==
    /\ GeneratorIdle
    /\ FormIdle
    /\ TasksIdle
    /\ AuthIdle
    /\ selectedInstance = Null
    /\ selectedDefinition = Null
    /\ isOpen = FALSE
    /\ currentDate \in {StartOfDay(today) : today \in PickedDays}
    /\ view = "daily"
    /\ selectedCategories = <<>>

\* openInstance without the reset of selectedDefinition
OpenInstanceKeepingDefinition ==
    /\ \E instance \in PanelInstances : selectedInstance' = instance
    /\ isOpen' = TRUE
    /\ UNCHANGED <<outsideStores, selectedDefinition, currentDate, view, selectedCategories>>

OpenInstance ==
    /\ \E instance \in PanelInstances : selectedInstance' = instance
    /\ selectedDefinition' = Null
    /\ isOpen' = TRUE
    /\ UNCHANGED <<outsideStores, currentDate, view, selectedCategories>>

OpenDefinition ==
    /\ \E definition \in PanelDefinitions : selectedDefinition' = definition
    /\ selectedInstance' = Null
    /\ isOpen' = TRUE
    /\ UNCHANGED <<outsideStores, currentDate, view, selectedCategories>>

Close ==
    /\ selectedInstance' = Null
    /\ selectedDefinition' = Null
    /\ isOpen' = FALSE
    /\ UNCHANGED <<outsideStores, currentDate, view, selectedCategories>>

SetCurrentDate ==
    /\ \E date \in PickedDays : currentDate' = StartOfDay(date)
    /\ UNCHANGED <<outsideStores, selectedInstance, selectedDefinition, isOpen, view,
                   selectedCategories>>

SetView ==
    /\ \E v \in CalendarViews : view' = v
    /\ UNCHANGED <<outsideStores, selectedInstance, selectedDefinition, isOpen,
                   currentDate, selectedCategories>>

ToggleCategory ==
    /\ \E categoryId \in CategoryIds :
          selectedCategories' =
              IF IncludesCategory(selectedCategories, categoryId)
              THEN Without(selectedCategories, categoryId)
              ELSE selectedCategories \o <<categoryId>>
    /\ UNCHANGED <<outsideStores, selectedInstance, selectedDefinition, isOpen,
                   currentDate, view>>

SetSelectedCategories ==
    /\ \E categories \in CategoryLists : selectedCategories' = categories
    /\ UNCHANGED <<outsideStores, selectedInstance, selectedDefinition, isOpen,
                   currentDate, view>>

GoToToday ==
    /\ \E today \in PickedDays : currentDate' = StartOfDay(today)
    /\ UNCHANGED <<outsideStores, selectedInstance, selectedDefinition, isOpen, view,
                   selectedCategories>>

\* newDate of navigatePrev, by view
PrevDate(date, v) ==
    CASE v = "daily"   -> SetDate(date, GetDate(date) - 1)
      [] v = "weekly"  -> SetDate(date, GetDate(date) - 7)
      [] v = "monthly" -> SetMonth(date, GetMonth(date) - 1)
      [] v = "yearly"  -> SetFullYear(date, GetFullYear(date) - 1)
      [] OTHER         -> date

\* newDate of navigateNext, by view
NextDate(date, v) ==
    CASE v = "daily"   -> SetDate(date, GetDate(date) + 1)
      [] v = "weekly"  -> SetDate(date, GetDate(date) + 7)
      [] v = "monthly" -> SetMonth(date, GetMonth(date) + 1)
      [] v = "yearly"  -> SetFullYear(date, GetFullYear(date) + 1)
      [] OTHER         -> date

\* navigatePrev (tried while the result is one of the days the model shows)
NavigatePrev ==
    /\ PrevDate(currentDate, view) \in ShownDays
    /\ currentDate' = StartOfDay(PrevDate(currentDate, view))
    /\ UNCHANGED <<outsideStores, selectedInstance, selectedDefinition, isOpen, view,
                   selectedCategories>>

\* navigateNext (tried while the result is one of the days the model shows)
NavigateNext ==
    /\ NextDate(currentDate, view) \in ShownDays
    /\ currentDate' = StartOfDay(NextDate(currentDate, view))
    /\ UNCHANGED <<outsideStores, selectedInstance, selectedDefinition, isOpen, view,
                   selectedCategories>>

StoresNext ==
    \/ OpenInstance
    \/ OpenDefinition
    \/ Close
    \/ SetCurrentDate
    \/ SetView
    \/ ToggleCategory
    \/ SetSelectedCategories
    \/ GoToToday
    \/ NavigatePrev
    \/ NavigateNext

StoresSpec == StoresInit /\ [][StoresNext]_vars

----------------------------------------------------------------------------
(* SQL text values of the clock *)

\* half days in a day: the clock's unit is half a day
HalfDaysPerDay == 2

\* datetime("now") of SQLite, 'YYYY-MM-DD HH:MM:SS': the day, a space, the
\* time of day
SqlDatetimeNow(t) == <<t \div HalfDaysPerDay, " ", t % HalfDaysPerDay>>

----------------------------------------------------------------------------
(* The task API: POST /api/tasks, POST /api/import/tasks, PUT and DELETE   *)
(* /api/tasks/:id, PUT /api/instances/:id.  Each handler is taken as one   *)
(* step; of a task definition the columns id, recurrence_type and          *)
(* recurrence_config are kept.                                              *)

\* definitions that may be created in one run
MaxDefinitions == 2

\* instances that may be inserted in one run
MaxInstances == 2

\* the recurrence_config objects the requests carry
TaskConfigs ==
    {[Blank EXCEPT !.type = "yearly", !.month = 3, !.dayOfMonth = 10],
     [Blank EXCEPT !.type = "yearly", !.month = 2, !.dayOfMonth = 30],
     [Blank EXCEPT !.type = "asNeeded"]}

\* the `when` texts the imported tasks carry
ImportTexts ==
    {<<"J", "a", "n", "u", "a", "r", "y", " ", "1", "1">>,
     <<"M", "a", "y", " ", "2", "0", "2", "5">>}

\* yearStart and yearEnd of an import request
ImportWindows == {<<2024, 2025>>, <<2025, 2025>>}

\* new Date().getFullYear() at the time of a request
CurrentYears == {2024}

\* the windows generation is run for again
RerunWindows == {<<2024, 2025>>, <<2025, 2026>>}

\* parseRecurrence(task.when) of the imported texts, by text and year of the run
ParsedSchedules ==
    [text \in ImportTexts |-> [y \in CurrentYears |-> ParseRecurrence(text, y)]]

\* the configs a stored definition can carry
StoredConfigs ==
    TaskConfigs \cup {ParsedSchedules[text][y] : text \in ImportTexts, y \in CurrentYears}

\* the windows generateInstances is called with
GenerationWindows ==
    {<<y, y + 1>> : y \in CurrentYears} \cup ImportWindows \cup RerunWindows

\* what generateInstances returns for these configs and windows, by copy
Generated ==
    [cp \in {"create", "import"} |->
        [cfg \in StoredConfigs |->
            [w \in GenerationWindows |-> GenerateInstances(cp, cfg, w[1], w[2])]]]

\* the users the middleware hands to a handler (data.user.id)
SignedInUsers == {1}

\* the notes a PUT /api/instances/:id may carry
NoteTexts == {"checked"}

\* the values of body.status; "absent" stands for a key the body lacks
\* (body.status === undefined)
BodyStatuses == {"absent", "pending", "completed", "skipped"}

\* NULL in a text or datetime column (a text value v is held as <<v>>, a
\* datetime as the triple of SqlDatetimeNow)
NullText == <<>>

\* the row INSERT ... (task_definition_id, scheduled_date) creates: the other
\* columns take their defaults
NewInstance(id, definitionId, date) ==
    [id |-> id, task_definition_id |-> definitionId, scheduled_date |-> date,
     status |-> "pending", completed_at |-> NullText, completed_by |-> Null,
     notes |-> NullText]

\* plain INSERT of every generated date on a table without the UNIQUE constraint
InsertAll(table, seq, definitionId, dates) ==
    [rows |-> table \cup {NewInstance(seq + i, definitionId, dates[i]) : i \in DOMAIN dates},
     seq  |-> seq + Len(dates)]

\* the batches of INSERT OR IGNORE statements, one per generated date, run in
\* order: a date whose (task_definition_id, scheduled_date) is already in
\* the table is skipped by the UNIQUE constraint
InsertOrIgnoreAll(table, seq, definitionId, dates) ==
    LET After[i \in 0..Len(dates)] ==
            IF i = 0 THEN [rows |-> table, seq |-> seq]
            ELSE LET before == After[i - 1]
                 IN  IF \E r \in before.rows :
                           /\ r.task_definition_id = definitionId
                           /\ r.scheduled_date = dates[i]
                     THEN before
                     ELSE [rows |-> before.rows
                                    \cup {NewInstance(before.seq + 1, definitionId, dates[i])},
                           seq  |-> before.seq + 1]
    IN  After[Len(dates)]

\* the database as schema.sql leaves it, half a day after the deployment
TasksInit ==
    /\ GeneratorIdle
    /\ FormIdle
    /\ StoresIdle
    /\ AuthIdle
    /\ now = 1
    /\ task_definitions = {}
    /\ task_instances = {}
    /\ definitionSeq = 0
    /\ instanceSeq = 0

\* the batches of INSERT OR IGNORE run for the generated dates of a definition
InsertGenerated(definitionId, generated) ==
    LET inserted == InsertOrIgnoreAll(task_instances, instanceSeq, definitionId, generated)
    IN  /\ inserted.seq <= MaxInstances
        /\ task_instances' = inserted.rows
        /\ instanceSeq' = inserted.seq

\* INSERT INTO task_definitions, then the instances generated for the new row
InsertDefinition(id, recurrence_config, generated) ==
    /\ task_definitions' = task_definitions
           \cup {[id |-> id, recurrence_type |-> recurrence_config.type,
                  recurrence_config |-> recurrence_config]}
    /\ definitionSeq' = id
    /\ InsertGenerated(id, generated)

\* POST /api/tasks
PostTask ==
    /\ definitionSeq < MaxDefinitions
    /\ \E title \in {"", "Flush hydrants"}, recurrence_config \in TaskConfigs,
          currentYear \in CurrentYears :
          IF title = ""
          THEN UNCHANGED <<task_definitions, task_instances, definitionSeq, instanceSeq>>
          ELSE InsertDefinition(
                   definitionSeq + 1, recurrence_config,
                   Generated["create"][recurrence_config][<<currentYear, currentYear + 1>>])
    /\ UNCHANGED <<outsideTasks, now>>

\* the import of one parsed task: a new definition and its instances
ImportParsed(parsed, window) ==
    InsertDefinition(definitionSeq + 1, parsed, Generated["import"][parsed][window])

\* POST /api/import/tasks with one task
ImportTasks ==
    /\ definitionSeq < MaxDefinitions
    /\ \E text \in ImportTexts, window \in ImportWindows, currentYear \in CurrentYears :
          ImportParsed(ParsedSchedules[text][currentYear], window)
    /\ UNCHANGED <<outsideTasks, now>>

\* PUT /api/tasks/:id: the row's columns are updated, nothing else is
PutTask ==
    /\ \E id \in 1..MaxDefinitions, hasConfig \in BOOLEAN, recurrence_config \in TaskConfigs :
          task_definitions' =
              {IF d.id = id /\ hasConfig
               THEN [d EXCEPT !.recurrence_type = recurrence_config.type,
                              !.recurrence_config = recurrence_config]
               ELSE d : d \in task_definitions}
    /\ UNCHANGED <<outsideTasks, now, task_instances, definitionSeq, instanceSeq>>

\* DELETE /api/tasks/:id: the instances go with the definition (ON DELETE CASCADE)
DeleteTask ==
    /\ \E id \in 1..MaxDefinitions :
          /\ task_definitions' = {d \in task_definitions : d.id # id}
          /\ task_instances' = {r \in task_instances : r.task_definition_id # id}
    /\ UNCHANGED <<outsideTasks, now, definitionSeq, instanceSeq>>

\* the row after UPDATE task_instances SET ... of PUT /api/instances/:id
UpdatedInstance(r, status, notes, userId) ==
    LET withStatus ==
            IF status = "absent" THEN r
            ELSE IF status = "completed"
                 THEN [r EXCEPT !.status = status,
                                !.completed_at = SqlDatetimeNow(now),
                                !.completed_by = userId]
            ELSE IF status = "pending"
                 THEN [r EXCEPT !.status = status,
                                !.completed_at = NullText,
                                !.completed_by = Null]
            ELSE [r EXCEPT !.status = status]
    IN  IF notes = "absent" THEN withStatus ELSE [withStatus EXCEPT !.notes = <<notes>>]

\* PUT /api/instances/:id
PutInstance ==
    /\ \E id \in 1..(instanceSeq + 1),
          status \in BodyStatuses,
          notes \in NoteTexts \cup {"absent"},
          userId \in SignedInUsers :
          IF status = "absent" /\ notes = "absent"
          THEN UNCHANGED task_instances
          ELSE task_instances' =
                   {IF r.id = id THEN UpdatedInstance(r, status, notes, userId) ELSE r :
                       r \in task_instances}
    /\ UNCHANGED <<outsideTasks, now, task_definitions, definitionSeq, instanceSeq>>

TasksNext ==
    \/ PostTask
    \/ ImportTasks
    \/ PutTask
    \/ DeleteTask
    \/ PutInstance

TasksSpec == TasksInit /\ [][TasksNext]_vars

\* generation and the batch insert (the step POST /api/tasks and the import
\* end with) run once more for a stored definition
RerunGeneration ==
    /\ \E d \in task_definitions, cp \in {"create", "import"}, window \in RerunWindows :
          InsertGenerated(d.id, Generated[cp][d.recurrence_config][window])
    /\ UNCHANGED <<outsideTasks, now, task_definitions, definitionSeq>>

\* creation, changes of the instances and the step run again, for
\* definitions whose config stays as created
RerunNext ==
    \/ PostTask
    \/ ImportTasks
    \/ PutInstance
    \/ RerunGeneration

RerunSpec == TasksInit /\ [][RerunNext]_vars

----------------------------------------------------------------------------
(* Sessions and users: the middleware, login, logout, GET /api/auth/me,     *)
(* POST /api/users and DELETE /api/users/:id.  A request of a client moves  *)
(* from one awaited database statement to the next; statements of other     *)
(* requests may run in between.  Login is taken as one step.                *)

\* lifetime of a session in days (7 * 24 * 60 * 60 * 1000 ms)
SessionDays == 7

\* the clock stops a day after the first session expires
MaxTime == (SessionDays + 1) * HalfDaysPerDay

\* sessions that may be created in one run
MaxSessions == 2

\* users that may be stored in one run (the AUTOINCREMENT sequence's end)
MaxUsers == 3

\* new Date(ms).toISOString(), 'YYYY-MM-DDTHH:MM:SS.sssZ': the day, a "T",
\* the time of day
ToISOString(t) == <<t \div HalfDaysPerDay, "T", t % HalfDaysPerDay>>

\* the code unit of the character between date and time
SeparatorCode(c) == IF c = "T" THEN 84 ELSE 32

\* a > b on two date-time texts, as SQLite compares TEXT values: character
\* by character, so by the date, then the separator, then the time
TextGreater(a, b) ==
    \/ a[1] > b[1]
    \/ a[1] = b[1] /\ SeparatorCode(a[2]) > SeparatorCode(b[2])
    \/ a[1] = b[1] /\ SeparatorCode(a[2]) = SeparatorCode(b[2]) /\ a[3] > b[3]

\* a is later than b, on the instants two date-time texts denote
InstantGreater(a, b) ==
    \/ a[1] > b[1]
    \/ a[1] = b[1] /\ a[3] > b[3]

\* the passwords that are typed
PasswordAdmin123 == <<"a", "d", "m", "i", "n", "1", "2", "3">>
PasswordOps == <<"w", "a", "t", "e", "r">>
Passwords == {PasswordAdmin123, PasswordOps}

\* hashPassword: the hex SHA-256 digest, which differs for different
\* passwords and never starts with '$argon2'
HashPassword(password) == <<"sha256:">> \o password

\* verifyPassword
VerifyPassword(password, hash) ==
    IF HasAt(hash, 1, <<"$", "a", "r", "g", "o", "n", "2">>)
    THEN password = PasswordAdmin123 /\ Includes(hash, PasswordAdmin123)
    ELSE HashPassword(password) = hash

\* the account the operator inserts with a SHA-256 hash (the seeded hash
\* never verifies, so no one can log in before)
OperatorAdmin ==
    [id |-> 2, username |-> "ops", password_hash |-> HashPassword(PasswordOps),
     role |-> "admin"]

\* the user names requests carry
Usernames == {"admin", "ops", "bob"}

\* a client with no request under way; status is that of its last response
\* (0 before the first)
IdleRequest ==
    [pc |-> "idle", route |-> "", cookie |-> Null, target |-> Null, username |-> "",
     role |-> "", userId |-> Null, userRole |-> "", status |-> 0,
     afterLogout |-> FALSE, afterExpiry |-> FALSE]

\* the response is sent
Respond(c, status) ==
    requests' = [requests EXCEPT ![c] = [@ EXCEPT !.pc = "idle", !.status = status]]

\* the session row of a cookie, if any
SessionRows(cookie) == {s \in sessions : s.id = cookie}

\* a request to a non-public path enters the middleware; the request notes
\* whether its cookie's session was logged out or had expired by then
Send(c, route, cookie, target, username, role) ==
    /\ requests[c].pc = "idle"
    /\ requests' = [requests EXCEPT ![c] =
           [pc |-> "middleware", route |-> route, cookie |-> cookie, target |-> target,
            username |-> username, role |-> role, userId |-> Null, userRole |-> "",
            status |-> 0,
            afterLogout |-> cookie \in loggedOut,
            afterExpiry |-> \E s \in SessionRows(cookie) :
                                InstantGreater(ToISOString(now), s.expires_at)]]

\* the cookies a request may carry: none, or any session id handed out
Cookies == {Null} \cup 1..sessionSeq

\* time passes
Tick ==
    /\ now < MaxTime
    /\ \E d \in {1, SessionDays * HalfDaysPerDay} : now' = Min(now + d, MaxTime)
    /\ UNCHANGED <<outsideAuth, authVars>>

\* POST /api/auth/login
Login ==
    /\ \E c \in DOMAIN requests, username \in Usernames, password \in Passwords :
          /\ requests[c].pc = "idle"
          /\ LET found == {u \in users : u.username = username}
             IN  IF found = {} \/ ~VerifyPassword(password, (CHOOSE u \in found : TRUE).password_hash)
                 THEN /\ requests' = [requests EXCEPT ![c] = [IdleRequest EXCEPT !.status = 401]]
                      /\ UNCHANGED <<sessions, sessionSeq>>
                 ELSE /\ sessionSeq < MaxSessions
                      /\ sessions' = sessions \cup
                             {[id |-> sessionSeq + 1,
                               user_id |-> (CHOOSE u \in found : TRUE).id,
                               expires_at |-> ToISOString(now + SessionDays * HalfDaysPerDay)]}
                      /\ sessionSeq' = sessionSeq + 1
                      /\ requests' = [requests EXCEPT ![c] = [IdleRequest EXCEPT !.status = 200]]
    /\ UNCHANGED <<outsideAuth, now, users, userSeq, loggedOut>>

SendLogout ==
    /\ \E c \in DOMAIN requests, cookie \in Cookies : Send(c, "logout", cookie, Null, "", "")
    /\ UNCHANGED <<outsideAuth, now, users, sessions, userSeq, sessionSeq, loggedOut>>

SendMe ==
    /\ \E c \in DOMAIN requests, cookie \in Cookies : Send(c, "me", cookie, Null, "", "")
    /\ UNCHANGED <<outsideAuth, now, users, sessions, userSeq, sessionSeq, loggedOut>>

\* requests to POST /api/users under way
CreationsUnderWay == {c \in DOMAIN requests : requests[c].pc # "idle" /\ requests[c].route = "createUser"}

SendCreateUser ==
    /\ userSeq + Cardinality(CreationsUnderWay) < MaxUsers
    /\ \E c \in DOMAIN requests, cookie \in Cookies, role \in {"", "admin", "user"} :
          Send(c, "createUser", cookie, Null, "bob", role)
    /\ UNCHANGED <<outsideAuth, now, users, sessions, userSeq, sessionSeq, loggedOut>>

SendDeleteUser ==
    /\ \E c \in DOMAIN requests, cookie \in Cookies, id \in 1..MaxUsers :
          Send(c, "deleteUser", cookie, id, "", "")
    /\ UNCHANGED <<outsideAuth, now, users, sessions, userSeq, sessionSeq, loggedOut>>

\* middleware: the cookie, then SELECT * FROM sessions WHERE id = ? AND
\* expires_at > datetime("now")
MiddlewareSession ==
    /\ \E c \in DOMAIN requests :
          /\ requests[c].pc = "middleware"
          /\ LET valid == {s \in SessionRows(requests[c].cookie) :
                              TextGreater(s.expires_at, SqlDatetimeNow(now))}
             IN  IF requests[c].cookie = Null \/ valid = {}
                 THEN Respond(c, 401)
                 ELSE requests' = [requests EXCEPT ![c] =
                          [@ EXCEPT !.pc = "session",
                                    !.userId = (CHOOSE s \in valid : TRUE).user_id]]
    /\ UNCHANGED <<outsideAuth, now, users, sessions, userSeq, sessionSeq, loggedOut>>

\* middleware: SELECT id, username, role FROM users WHERE id = ?, then next()
MiddlewareUser ==
    /\ \E c \in DOMAIN requests :
          /\ requests[c].pc = "session"
          /\ LET found == {u \in users : u.id = requests[c].userId}
             IN  IF found = {}
                 THEN Respond(c, 401)
                 ELSE requests' = [requests EXCEPT ![c] =
                          [@ EXCEPT !.pc = "handler",
                                    !.userRole = (CHOOSE u \in found : TRUE).role]]
    /\ UNCHANGED <<outsideAuth, now, users, sessions, userSeq, sessionSeq, loggedOut>>

\* POST /api/auth/logout
Logout ==
    /\ \E c \in DOMAIN requests :
          /\ requests[c].pc = "handler" /\ requests[c].route = "logout"
          /\ sessions' = {s \in sessions : s.id # requests[c].cookie}
          /\ loggedOut' = loggedOut \cup {requests[c].cookie}
          /\ Respond(c, 200)
    /\ UNCHANGED <<outsideAuth, now, users, userSeq, sessionSeq>>

\* GET /api/auth/me
Me ==
    /\ \E c \in DOMAIN requests :
          /\ requests[c].pc = "handler" /\ requests[c].route = "me"
          /\ Respond(c, 200)
    /\ UNCHANGED <<outsideAuth, now, users, sessions, userSeq, sessionSeq, loggedOut>>

\* POST /api/users up to SELECT id FROM users WHERE username = ?
CreateUserCheck ==
    /\ \E c \in DOMAIN requests :
          /\ requests[c].pc = "handler" /\ requests[c].route = "createUser"
          /\ IF requests[c].userRole # "admin" THEN Respond(c, 403)
             ELSE IF \E u \in users : u.username = requests[c].username THEN Respond(c, 400)
             ELSE requests' = [requests EXCEPT ![c] = [@ EXCEPT !.pc = "insert"]]
    /\ UNCHANGED <<outsideAuth, now, users, sessions, userSeq, sessionSeq, loggedOut>>

\* POST /api/users: INSERT INTO users (a taken username fails on UNIQUE)
CreateUserInsert ==
    /\ \E c \in DOMAIN requests :
          /\ requests[c].pc = "insert"
          /\ IF \E u \in users : u.username = requests[c].username
             THEN Respond(c, 500) /\ UNCHANGED <<users, userSeq>>
             ELSE /\ users' = users \cup
                         {[id |-> userSeq + 1, username |-> requests[c].username,
                           password_hash |-> HashPassword(PasswordOps),
                           role |-> IF requests[c].role = "" THEN "user" ELSE requests[c].role]}
                  /\ userSeq' = userSeq + 1
                  /\ Respond(c, 201)
    /\ UNCHANGED <<outsideAuth, now, sessions, sessionSeq, loggedOut>>

\* DELETE /api/users/:id up to DELETE FROM sessions WHERE user_id = ?
DeleteUserSessions ==
    /\ \E c \in DOMAIN requests :
          /\ requests[c].pc = "handler" /\ requests[c].route = "deleteUser"
          /\ IF requests[c].userRole # "admin"
             THEN Respond(c, 403) /\ UNCHANGED sessions
             ELSE IF requests[c].userId = requests[c].target
             THEN Respond(c, 400) /\ UNCHANGED sessions
             ELSE /\ sessions' = {s \in sessions : s.user_id # requests[c].target}
                  /\ requests' = [requests EXCEPT ![c] = [@ EXCEPT !.pc = "delete"]]
    /\ UNCHANGED <<outsideAuth, now, users, userSeq, sessionSeq, loggedOut>>

\* DELETE /api/users/:id: DELETE FROM users WHERE id = ? (the user's
\* sessions go with the row, ON DELETE CASCADE)
DeleteUserRow ==
    /\ \E c \in DOMAIN requests :
          /\ requests[c].pc = "delete"
          /\ users' = {u \in users : u.id # requests[c].target}
          /\ sessions' = {s \in sessions : s.user_id # requests[c].target}
          /\ Respond(c, 200)
    /\ UNCHANGED <<outsideAuth, now, userSeq, sessionSeq, loggedOut>>

\* one browser; the operator's account is in place
SessionInit ==
    /\ GeneratorIdle
    /\ FormIdle
    /\ StoresIdle
    /\ TasksIdle
    /\ users = {SeededAdmin, OperatorAdmin}
    /\ sessions = {}
    /\ userSeq = 2
    /\ sessionSeq = 0
    /\ requests = [c \in {1} |-> IdleRequest]
    /\ loggedOut = {}

SessionNext ==
    \/ Tick
    \/ Login
    \/ SendLogout
    \/ SendMe
    \/ MiddlewareSession
    \/ MiddlewareUser
    \/ Logout
    \/ Me

SessionSpec == SessionInit /\ [][SessionNext]_vars

\* two browsers; the operator's account is in place, next to the seeded
\* admin or after the seeded admin was deleted
UsersInit ==
    /\ GeneratorIdle
    /\ FormIdle
    /\ StoresIdle
    /\ TasksIdle
    /\ users \in {{SeededAdmin, OperatorAdmin}, {OperatorAdmin}}
    /\ sessions = {}
    /\ userSeq = 2
    /\ sessionSeq = 0
    /\ requests = [c \in {1, 2} |-> IdleRequest]
    /\ loggedOut = {}

UsersNext ==
    \/ Login
    \/ SendCreateUser
    \/ SendDeleteUser
    \/ MiddlewareSession
    \/ MiddlewareUser
    \/ CreateUserCheck
    \/ CreateUserInsert
    \/ DeleteUserSessions
    \/ DeleteUserRow

UsersSpec == UsersInit /\ [][UsersNext]_vars

----------------------------------------------------------------------------
(* TaskForm: the recurrence type, the range inputs and the submit.  Of     *)
(* formData.recurrence_config the keys type, interval and range are kept.  *)

\* the options of the recurrence type
RECURRENCE_TYPES ==
    {"daily", "weekly", "monthly", "quarterly", "yearly", "bimonthly", "asNeeded"}

\* the types whose config handleRecurrenceTypeChange gives a range key, and
\* for which the range inputs are rendered
RangeTypes == {"daily", "weekly", "monthly", "yearly"}

\* the dates typed into the two date inputs
FormStartDates == {<<2025, 1, 1>>}
FormEndDates == {<<2025, 6, 30>>}

\* the numbers typed into the occurrences input
FormOccurrences == {5, 10}

\* a stored range of a definition that is opened for editing
StoredRange ==
    [startDate |-> <<2025, 1, 1>>, endType |-> "occurrences", endDate |-> <<>>,
     occurrences |-> 5]

\* initialData: none, or the definition that is edited
InitialData ==
    {[recurrence_type |-> "daily", interval |-> Undefined, range |-> NoRangeKey],
     [recurrence_type |-> "monthly", interval |-> 1, range |-> NoRangeKey],
     [recurrence_type |-> "weekly", interval |-> 1, range |-> StoredRange],
     [recurrence_type |-> "quarterly", interval |-> Undefined, range |-> NoRangeKey]}

\* range?.endType || 'never' and range?.occurrences || 10 of the initial state
InitialEndType(range) ==
    IF range.endType \in {"never", "date", "occurrences"} THEN range.endType ELSE "never"
InitialOccurrences(range) == OrDefault(range.occurrences, 10)

\* buildRange()
BuildRange ==
    IF rangeStartDate = <<>> /\ rangeEndType = "never" THEN UndefinedRange
    ELSE [startDate   |-> rangeStartDate,
          endType     |-> rangeEndType,
          endDate     |-> IF rangeEndType = "date" THEN rangeEndDate ELSE <<>>,
          occurrences |-> IF rangeEndType = "occurrences" THEN rangeOccurrences
                          ELSE Undefined]

\* the form as it is first rendered
FormInit ==
    /\ GeneratorIdle
    /\ StoresIdle
    /\ TasksIdle
    /\ AuthIdle
    /\ formData \in InitialData
    /\ rangeStartDate = formData.range.startDate
    /\ rangeEndType = InitialEndType(formData.range)
    /\ rangeEndDate = formData.range.endDate
    /\ rangeOccurrences = InitialOccurrences(formData.range)
    /\ submitted = [recurrence_type |-> "", interval |-> Undefined, range |-> NoRangeKey]

\* handleRecurrenceTypeChange
HandleRecurrenceTypeChange ==
    /\ \E type \in RECURRENCE_TYPES :
          formData' =
              [recurrence_type |-> type,
               interval |-> IF type \in RangeTypes THEN 1 ELSE Undefined,
               range |-> IF type \in RangeTypes THEN BuildRange ELSE NoRangeKey]
    /\ UNCHANGED <<outsideForm, rangeStartDate, rangeEndType, rangeEndDate, rangeOccurrences,
                   submitted>>

\* updateConfig({ interval: ... }), offered for the types with an interval
UpdateConfig ==
    /\ formData.recurrence_type \in RangeTypes
    /\ \E interval \in {1, 2} : formData' = [formData EXCEPT !.interval = interval]
    /\ UNCHANGED <<outsideForm, rangeStartDate, rangeEndType, rangeEndDate, rangeOccurrences,
                   submitted>>

\* the start date input (rendered for the types with a range)
SetRangeStartDate ==
    /\ formData.recurrence_type \in RangeTypes
    /\ \E value \in FormStartDates \cup {<<>>} : rangeStartDate' = value
    /\ UNCHANGED <<outsideForm, formData, rangeEndType, rangeEndDate, rangeOccurrences,
                   submitted>>

\* the three end type radio buttons
SetRangeEndType ==
    /\ formData.recurrence_type \in RangeTypes
    /\ \E value \in {"never", "date", "occurrences"} : rangeEndType' = value
    /\ UNCHANGED <<outsideForm, formData, rangeStartDate, rangeEndDate, rangeOccurrences,
                   submitted>>

\* the end date input, enabled while the end type is 'date'
SetRangeEndDate ==
    /\ formData.recurrence_type \in RangeTypes
    /\ rangeEndType = "date"
    /\ \E value \in FormEndDates \cup {<<>>} : rangeEndDate' = value
    /\ UNCHANGED <<outsideForm, formData, rangeStartDate, rangeEndType, rangeOccurrences,
                   submitted>>

\* the occurrences input, enabled while the end type is 'occurrences'
SetRangeOccurrences ==
    /\ formData.recurrence_type \in RangeTypes
    /\ rangeEndType = "occurrences"
    /\ \E value \in FormOccurrences : rangeOccurrences' = OrDefault(value, 10)
    /\ UNCHANGED <<outsideForm, formData, rangeStartDate, rangeEndType, rangeEndDate,
                   submitted>>

\* handleSubmit
HandleSubmit ==
    /\ submitted' =
           IF BuildRange # UndefinedRange /\ formData.range # NoRangeKey
           THEN [formData EXCEPT !.range = BuildRange]
           ELSE formData
    /\ UNCHANGED <<outsideForm, formData, rangeStartDate, rangeEndType, rangeEndDate,
                   rangeOccurrences>>

FormNext ==
    \/ HandleRecurrenceTypeChange
    \/ UpdateConfig
    \/ SetRangeStartDate
    \/ SetRangeEndType
    \/ SetRangeEndDate
    \/ SetRangeOccurrences
    \/ HandleSubmit

FormSpec == FormInit /\ [][FormNext]_vars

----------------------------------------------------------------------------
(* Properties of the stores *)

\* months since year 0 of the month a Date lies in
MonthNumber(t) == GetFullYear(t) * 12 + GetMonth(t)

\* C22: after any sequence of openInstance, openDefinition and close, at most
\* one of selectedInstance and selectedDefinition is non-null and isOpen is
\* true exactly when one of them is non-null.
PanelSelectionExclusive ==
    /\ selectedInstance = Null \/ selectedDefinition = Null
    /\ isOpen <=> (selectedInstance # Null \/ selectedDefinition # Null)

\* C22, its case: a definition was open, then an instance was opened
PanelSelectionExclusiveWitness ==
    /\ selectedInstance = 101
    /\ selectedDefinition = Null
    /\ isOpen

\* C23: in the monthly view navigateNext moves currentDate into the calendar
\* month immediately after its month, and navigatePrev into the calendar
\* month immediately before it, from every day of the month.
MonthlyNavigationStepsOneMonth ==
    [][/\ (view = "monthly" /\ NavigateNext)
          => MonthNumber(currentDate') = MonthNumber(currentDate) + 1
       /\ (view = "monthly" /\ NavigatePrev)
          => MonthNumber(currentDate') = MonthNumber(currentDate) - 1]_vars
----------------------------------------------------------------------------
(* Properties of the task API *)

\* the stored definition with the given id
DefinitionOf(id) == CHOOSE d \in task_definitions : d.id = id

\* C26: after any sequence of PUT /api/instances/:id, completed_at and
\* completed_by are set only while status is 'completed': an instance whose
\* status is 'pending' or 'skipped' has both null.
CompletionOnlyWhileCompleted ==
    \A r \in task_instances :
        r.status # "completed" => (r.completed_at = NullText /\ r.completed_by = Null)

\* C21: running generation and the insert-if-absent step again for a stored
\* definition and the same or an overlapping window leaves at most one row
\* per (task_definition_id, scheduled_date) and leaves every row that
\* already existed as it was.
RerunIdempotent ==
    /\ [](\A r1, r2 \in task_instances :
              (r1.task_definition_id = r2.task_definition_id
               /\ r1.scheduled_date = r2.scheduled_date) => r1 = r2)
    /\ [][RerunGeneration => task_instances \subseteq task_instances']_vars

\* C21, its case: a definition holds a row of 2026, which only a second run
\* over the overlapping window 2025..2026 brings about, next to its row of
\* 2025, which was completed and annotated
RerunIdempotentWitness ==
    \E r1, r2 \in task_instances :
        /\ r1.task_definition_id = r2.task_definition_id
        /\ r1.scheduled_date[1] = 2025
        /\ r1.status = "completed" /\ r1.notes = <<"checked">>
        /\ r2.scheduled_date[1] = 2026

\* the dates a config generates in the year of a date, by either copy
GeneratesDate(cfg, date) ==
    \E cp \in {"create", "import"} :
        date \in Entries(GenerateInstances(cp, cfg, date[1], date[1]))

\* C30: after any sequence of task-definition creates and updates, every
\* stored instance of a definition has a scheduled_date that the
\* definition's current recurrence_config generates.
InstancesFollowConfig ==
    \A r \in task_instances :
        GeneratesDate(DefinitionOf(r.task_definition_id).recurrence_config, r.scheduled_date)

----------------------------------------------------------------------------
(* Properties of sessions and users *)

\* C27: a request to a non-public path sent after the logout of its
\* cookie's session was answered, or after that session's expires_at, is
\* answered 401 by the middleware and never reaches its handler.
LateRequestsRejected ==
    \A c \in DOMAIN requests :
        (requests[c].afterLogout \/ requests[c].afterExpiry)
        => \/ requests[c].pc = "middleware"
           \/ requests[c].pc = "idle" /\ requests[c].status = 401

\* C28: a users table that holds an admin still holds one after any
\* interleaving of create-user and delete-user requests.
AdminRemains == \E u \in users : u.role = "admin"

----------------------------------------------------------------------------
(* Properties of the task form *)

\* the range a config carries, a missing key and undefined being alike
RangeOf(cfg) == IF cfg.range = NoRangeKey THEN UndefinedRange ELSE cfg.range

\* C29: for a config of type daily, weekly, monthly or yearly, whatever the
\* edits before, the recurrence_config passed to onSubmit carries the range
\* buildRange() yields from the range inputs at submit time, and no range
\* when the start date is empty and the end type is 'never'.
SubmittedRangeIsBuilt ==
    [][(HandleSubmit /\ formData.recurrence_type \in RangeTypes)
       => RangeOf(submitted') = BuildRange]_vars

====
